---- MODULE Spec2Model ----
(***************************************************************************)
(* Write-ahead logging library (disk-utils): the undo engine               *)
(* (src/wal/undo_log.rs) and the redo engine (src/wal/redo_log.rs) over    *)
(* the blocked record log (writer.rs, iterator.rs, mod.rs, entries.rs).    *)
(*                                                                         *)
(* A log file is kept as the sequence of entries appended to it; the byte  *)
(* layout (record offsets, padding, file length) is computed from that     *)
(* sequence the way Writer::append lays records out, and reading is        *)
(* computed from the layout the way WalIterator pages blocks.              *)
(***************************************************************************)
EXTENDS Integers, Sequences, FiniteSets, TLC

(***************************************************************************)
(* Program constants                                                       *)
(***************************************************************************)
BLOCK_SIZE == 32000
HEADER_SIZE == 7
MAX_RECORD_SIZE == 1024

(***************************************************************************)
(* Bounds of the model                                                     *)
(***************************************************************************)
NumKeys == 2
MaxTid == 2
MaxLog == 5

Keys == 1..NumKeys

\* Values are text.  "a" and "b" are one byte long; "L" is a long text whose
\* Change entry, written after a Start (and an Insert), ends exactly on the
\* second block boundary of the file.
LongLen == 62 * MAX_RECORD_SIZE + 15
Values == {"a", "b", "L"}
NoVal == "none"
Untouched == "untouched"

ValLen(v) == IF v = "L" THEN LongLen ELSE 1

Max(a, b) == IF a >= b THEN a ELSE b

RECURSIVE SetMax(_)
SetMax(S) ==
    IF S = {} THEN 0
    ELSE LET x == CHOOSE y \in S : TRUE IN Max(x, SetMax(S \ {x}))

Reverse(s) == [i \in 1..Len(s) |-> s[Len(s) + 1 - i]]

\* Every ordering of a finite set (the iteration orders of a HashSet).
Orders(S) ==
    { s \in [1..Cardinality(S) -> S] :
        \A i, j \in 1..Cardinality(S) : i # j => s[i] # s[j] }

(***************************************************************************)
(* Log entries (entries.rs) and their serialized size (serializable.rs)    *)
(***************************************************************************)
StartE(t) == [type |-> "Start", tid |-> t, key |-> 0, val |-> NoVal, tids |-> {}]
CommitE(t) == [type |-> "Commit", tid |-> t, key |-> 0, val |-> NoVal, tids |-> {}]
AbortE(t) == [type |-> "Abort", tid |-> t, key |-> 0, val |-> NoVal, tids |-> {}]
InsertE(t, k) == [type |-> "Insert", tid |-> t, key |-> k, val |-> NoVal, tids |-> {}]
ChangeE(t, k, v) == [type |-> "Change", tid |-> t, key |-> k, val |-> v, tids |-> {}]
BeginE(S) == [type |-> "Begin", tid |-> 0, key |-> 0, val |-> NoVal, tids |-> S]
EndE == [type |-> "End", tid |-> 0, key |-> 0, val |-> NoVal, tids |-> {}]

\* What a flush that was cut short leaves of a Change entry with value v: its
\* first n records (n is kept in the key field), and none of its later ones.
TornE(v, n) == [type |-> "Torn", tid |-> 0, key |-> n, val |-> v, tids |-> {}]

\* Bytes of the serialized entry: one tag byte for the entry kind, then the
\* entry (u64 = 8 bytes, i32 key = 4 bytes, String = 4 + length bytes).
EntrySize(e) ==
    CASE e.type \in {"Start", "Commit", "Abort"} -> 1 + 1 + 8
      [] e.type = "Insert" -> 1 + 8 + 4
      [] e.type \in {"Change", "Torn"} -> 1 + 8 + 4 + 4 + ValLen(e.val)
      [] e.type = "Begin" -> 1 + 1 + 4 + 8 * Cardinality(e.tids)
      [] e.type = "End" -> 1 + 1

IsTxnEnd(e) == e.type \in {"Commit", "Abort"}
IsWrite(e) == e.type \in {"Insert", "Change"}

(***************************************************************************)
(* split_bytes_into_records (mod.rs): the records of one serialized entry  *)
(***************************************************************************)
NumChunks(n) == (n + MAX_RECORD_SIZE - 1) \div MAX_RECORD_SIZE

split_bytes_into_records(n, ent) ==
    LET c == NumChunks(n) IN
    IF c = 0 THEN << [kind |-> "Zero", size |-> 0, ent |-> ent, frag |-> 1, off |-> 0] >>
    ELSE [ i \in 1..c |->
            [ kind |-> IF c = 1 THEN "Full"
                       ELSE IF i = 1 THEN "First"
                       ELSE IF i = c THEN "Last" ELSE "Middle",
              size |-> IF i < c THEN MAX_RECORD_SIZE ELSE n - (c - 1) * MAX_RECORD_SIZE,
              ent |-> ent, frag |-> i, off |-> 0 ] ]

(***************************************************************************)
(* Writer::append (writer.rs): where a record lands in the file            *)
(***************************************************************************)
\* Offset at which a record with `size` payload bytes is written when the
\* file is `len` bytes long: padding to the next block is written first when
\* the payload (the header is not counted) does not fit the current block.
AppendOffset(len, size) ==
    LET curr_block_len == len - (len \div BLOCK_SIZE) * BLOCK_SIZE IN
    IF curr_block_len + size > BLOCK_SIZE
       THEN len + (BLOCK_SIZE - curr_block_len)
       ELSE len

\* The records of one entry appended one after the other to a file that is
\* `len` bytes long, each with the offset it is written at.
RECURSIVE LayoutRecords(_, _, _)
LayoutRecords(recs, i, len) ==
    IF i > Len(recs) THEN <<>>
    ELSE LET off == AppendOffset(len, recs[i].size) IN
         << [recs[i] EXCEPT !.off = off] >>
            \o LayoutRecords(recs, i + 1, off + HEADER_SIZE + recs[i].size)

EndOf(recs, len) ==
    IF recs = <<>> THEN len
    ELSE recs[Len(recs)].off + HEADER_SIZE + recs[Len(recs)].size

\* flush(): every entry is serialized, split into records, and the records
\* are appended in order.
RECURSIVE LayoutFrom(_, _, _)
LayoutFrom(file, i, len) ==
    IF i > Len(file) THEN <<>>
    ELSE LET all == split_bytes_into_records(EntrySize(file[i]), i)
             written == IF file[i].type = "Torn" THEN SubSeq(all, 1, file[i].key) ELSE all
             recs == LayoutRecords(written, 1, len) IN
         recs \o LayoutFrom(file, i + 1, EndOf(recs, len))

\* The records of the file with their byte offsets.
Layout(file) == LayoutFrom(file, 1, 0)

FileLen(lay) ==
    IF lay = <<>> THEN 0
    ELSE lay[Len(lay)].off + HEADER_SIZE + lay[Len(lay)].size

(***************************************************************************)
(* WalIterator (iterator.rs): backward paging over the file                *)
(***************************************************************************)
check_forward_bounds(position, file_length) ==
    position < 0 \/ position + BLOCK_SIZE > file_length

check_backward_bounds(position, file_length) ==
    position - BLOCK_SIZE < 0 \/ position > file_length

\* Record::read applied repeatedly to the BLOCK_SIZE bytes read at `cursor`
\* onwards, up to `limit`: the indices (into the layout) of the records
\* parsed.  Parsing stops at the first read that fails: a record that does
\* not end before `limit`, a zero byte of padding, or bytes that are no
\* record header (an offset inside a record: the crc bytes are zero and the
\* values are text, none of which is a record type 1..5).
RECURSIVE ParseRecords(_, _, _)
ParseRecords(lay, cursor, limit) ==
    LET here == { i \in DOMAIN lay : lay[i].off = cursor } IN
    IF here = {} THEN <<>>
    ELSE LET i == CHOOSE j \in here : TRUE IN
         IF cursor + HEADER_SIZE + lay[i].size > limit THEN <<>>
         ELSE <<i>> \o ParseRecords(lay, cursor + HEADER_SIZE + lay[i].size, limit)

\* fetch_block: the records of the block at `position`; the empty sequence
\* stands for Err("Retrieved block is empty").
fetch_block(lay, position) == ParseRecords(lay, position, position + BLOCK_SIZE)

\* What successive next_back() calls of a fresh iterator yield: indices of
\* records, last first.  A trailing 0 stands for the panic of
\* load_block(..).unwrap() on a block with no parseable record; without it
\* the sequence ends with None.  The first block is looked for at
\* file_len - BLOCK_SIZE and tested with check_backward_bounds, the following
\* ones BLOCK_SIZE lower each and tested with check_forward_bounds.
RECURSIVE next_back_from(_, _, _, _)
next_back_from(lay, pos, file_len, first) ==
    LET out_of_bounds == IF first THEN check_backward_bounds(pos, file_len)
                                  ELSE check_forward_bounds(pos, file_len) IN
    IF out_of_bounds THEN <<>>
    ELSE LET block == fetch_block(lay, pos) IN
         IF block = <<>> THEN <<0>>
         ELSE Reverse(block) \o next_back_from(lay, pos - BLOCK_SIZE, file_len, FALSE)

next_back(lay) == next_back_from(lay, FileLen(lay) - BLOCK_SIZE, FileLen(lay), TRUE)

(***************************************************************************)
(* read_serializable_backwards (mod.rs): one entry from the records        *)
(***************************************************************************)
NumFrags(lay, e) == Cardinality({ i \in DOMAIN lay : lay[i].ent = e })

\* S::deserialize on the reassembled bytes: it yields the entry when the
\* buffered records (last fragment first) are all the fragments of one entry.
Deserialize(lay, buf, next) ==
    LET e == lay[buf[1]].ent
        n == NumFrags(lay, e) IN
    IF Len(buf) = n /\ \A i \in 1..n : lay[buf[i]].ent = e /\ lay[buf[i]].frag = n - i + 1
       THEN [res |-> "ok", ent |-> e, next |-> next]
       ELSE [res |-> "err", ent |-> 0, next |-> next]

\* The loop of read_serializable_backwards started at stream[p] in state
\* None with an empty buffer.  A Zero or Full record is deserialized alone.
\* A Last record moves to state First and every following Middle record to
\* state Middle; q is the first position after p that holds no Middle record,
\* where the loop ends: on the end of the stream (Err), on the iterator's
\* panic, on a First record (deserialized with the buffer when the state is
\* Middle, Err in state First), on a Zero or Full record (deserialized
\* alone) or on a second Last record (Err).  First and Middle records are
\* Err in state None.
rsb_loop(lay, stream, p) ==
    IF p > Len(stream) THEN [res |-> "err", ent |-> 0, next |-> p]
    ELSE IF stream[p] = 0 THEN [res |-> "panic", ent |-> 0, next |-> p]
    ELSE LET kind == lay[stream[p]].kind IN
         CASE kind \in {"Zero", "Full"} -> Deserialize(lay, <<stream[p]>>, p + 1)
           [] kind \in {"First", "Middle"} -> [res |-> "err", ent |-> 0, next |-> p + 1]
           [] kind = "Last" ->
                LET IsMiddle(j) == j <= Len(stream) /\ stream[j] # 0
                                     /\ lay[stream[j]].kind = "Middle"
                    q == CHOOSE j \in (p + 1)..(Len(stream) + 1) :
                            /\ ~IsMiddle(j)
                            /\ \A m \in (p + 1)..(j - 1) : IsMiddle(m)
                    state == IF q = p + 1 THEN "First" ELSE "Middle"
                IN
                IF q > Len(stream) THEN [res |-> "err", ent |-> 0, next |-> q]
                ELSE IF stream[q] = 0 THEN [res |-> "panic", ent |-> 0, next |-> q]
                ELSE CASE lay[stream[q]].kind \in {"Zero", "Full"} ->
                            Deserialize(lay, <<stream[q]>>, q + 1)
                       [] lay[stream[q]].kind = "First" ->
                            IF state # "Middle" THEN [res |-> "err", ent |-> 0, next |-> q + 1]
                            ELSE Deserialize(lay, [i \in 1..(q - p + 1) |-> stream[p + i - 1]], q + 1)
                       [] lay[stream[q]].kind = "Last" ->
                            [res |-> "err", ent |-> 0, next |-> q + 1]

\* One call on an iterator that has already yielded stream[1..p-1].
read_serializable_backwards(lay, stream, p) == rsb_loop(lay, stream, p)

\* `while let Ok(data) = read_serializable_backwards(..)`: the indices of the
\* entries read, last first, until the first Err; panic tells whether the
\* walk ended in the iterator's panic instead.
RECURSIVE ReadAllBackwards(_, _, _)
ReadAllBackwards(lay, stream, p) ==
    LET r == read_serializable_backwards(lay, stream, p) IN
    CASE r.res = "panic" -> [ents |-> <<>>, panic |-> TRUE]
      [] r.res = "err" -> [ents |-> <<>>, panic |-> FALSE]
      [] r.res = "ok" ->
           LET rest == ReadAllBackwards(lay, stream, r.next) IN
           [ents |-> <<r.ent>> \o rest.ents, panic |-> rest.panic]

(***************************************************************************)
(* The undo engine (undo_log.rs)                                           *)
(*                                                                         *)
(* u_file     entries on disk, in file order                               *)
(* u_mem      mem_log, the staged entries                                  *)
(* u_tid      the tid field: the last finished transaction                 *)
(* u_store    contents of the store object handed to the engine            *)
(* u_flushed  what the store has made durable (what survives a crash)      *)
(* u_pc       where the running call is: "closed" (no engine), "idle"      *)
(*            (between calls), "commit1" (first flush of commit, then      *)
(*            store.flush), "commit2" (flush of the Commit), "abort",      *)
(*            "recover" (flush of recover), "panicked"                     *)
(* History variables, read by the properties only:                         *)
(* u_started  a transaction was started and is not finished                *)
(* u_fresh    UndoLog::new has just returned                               *)
(* u_pre      per key, the store's value before the first write of the     *)
(*            transaction started last (Untouched: not written by it)      *)
(* u_ptid     the tid of the transaction started last                      *)
(* u_failed   tid of the commit that store.flush failed, while that        *)
(*            commit is the last call made on the log                      *)
(* u_gflush   store.flush succeeded after the last write                   *)
(* u_starts   the tids of the Start entries staged by the start() calls    *)
(*            made on this engine, in call order                           *)
(* u_done     how many entries of mem_log the running flush() has          *)
(*            appended (they leave mem_log only when flush() clears it;    *)
(*            u_mem holds the entries not yet appended)                    *)
(* u_staged   every entry staged on this engine, in staging order          *)
(* u_base     the number of entries in the file when the engine was opened *)
(* u_ioerr    an append to the file failed on this engine                  *)
(***************************************************************************)
VARIABLES u_file, u_mem, u_tid, u_store, u_flushed, u_pc,
          u_started, u_fresh, u_pre, u_ptid, u_failed, u_gflush, u_starts,
          u_done, u_staged, u_base, u_ioerr

u_vars == << u_file, u_mem, u_tid, u_store, u_flushed, u_pc,
             u_started, u_fresh, u_pre, u_ptid, u_failed, u_gflush, u_starts,
            u_done, u_staged, u_base, u_ioerr >>

(***************************************************************************)
(* The redo engine (redo_log.rs): state                                    *)
(*                                                                         *)
(* r_file      entries on disk, in file order                              *)
(* r_mem       mem_log                                                     *)
(* r_last_tid  last_tid                                                    *)
(* r_active    active_tids                                                 *)
(* r_changes   changes.transaction_changes, <<tid, key, value>> in order   *)
(* r_committed changes.committed_tids                                      *)
(* r_store     contents of the store object (its data)                     *)
(* r_flushed   what the store has made durable                             *)
(* r_pc        "closed", "idle", "recover" (the flush that ends recover),  *)
(*             "commit" (flush of commit, then store.flush), "cp1" (flush  *)
(*             of Begin, then the flush_change loop), "cp2" (flush of End) *)
(* r_arg       the tid argument of the running commit                      *)
(* History variables, read by the properties only:                         *)
(* r_fresh     RedoLog::new has just returned                              *)
(* r_failed    tid of the commit that store.flush failed, while that       *)
(*             commit is the last call made on the log                     *)
(* r_started   the tids start() has returned since RedoLog::new            *)
(* r_cp        the checkpoint() call while it is the last call made: st is *)
(*             "run" until it returns, "ok" once it has returned Ok and    *)
(*             "err" once a flush_change has failed, tids the tids started *)
(*             and not committed when it was called, calls the pairs       *)
(*             passed to store.flush_change, in the order of the calls     *)
(* r_halt      while recover() flushes: the position of the entry its      *)
(*             first pass read last (0: it read none)                      *)
(* r_calls     while recover() flushes: the store.update calls its second  *)
(*             pass made, as the positions of the Change entries passed    *)
(* r_again     how the process ended last, while no call but RedoLog::new  *)
(*             has been made since: "fresh" (RedoLog::new had returned and *)
(*             no call had been made on the engine), "recovery" (inside    *)
(*             the flush that ends recover()), "no" otherwise              *)
(*                                                                         *)
(* The values written through the redo engine are one byte long, so every  *)
(* entry is a single Full record and the entries read from the file are    *)
(* the records read from it.                                               *)
(***************************************************************************)
VARIABLES r_file, r_mem, r_last_tid, r_active, r_changes, r_committed,
          r_store, r_flushed, r_pc, r_arg, r_fresh, r_failed,
          r_started, r_cp, r_halt, r_calls, r_again

r_vars == << r_file, r_mem, r_last_tid, r_active, r_changes, r_committed,
             r_store, r_flushed, r_pc, r_arg, r_fresh, r_failed,
             r_started, r_cp, r_halt, r_calls, r_again >>

(***************************************************************************)
(* The undo engine with transaction ids and checkpoints.  undo_log.rs as   *)
(* it is among the sources has one transaction at a time and no            *)
(* checkpoint(); the engine the tests of tests/test_undo_log.rs drive is   *)
(* modelled as the specification document describes it (4.5).              *)
(*                                                                         *)
(* uc_file      entries on disk, in file order                             *)
(* uc_mem       mem_log                                                    *)
(* uc_last_tid  last_tid                                                   *)
(* uc_active    active_tids                                                *)
(* uc_cp        checkpoint_tids: some tells a checkpoint is in progress,   *)
(*              tids is the set captured with its Begin                    *)
(* uc_store     contents of the store object                               *)
(* uc_flushed   what the store has made durable                            *)
(* uc_pc        "closed", "idle", "recover" (the flush that ends           *)
(*              recovery), "commit1" (first flush of commit, then          *)
(*              store.flush), "commit2" (flush of the Commit), "cp" (flush *)
(*              of the Begin)                                              *)
(* uc_arg       the tid argument of the running commit                     *)
(* History variables, read by the properties only:                         *)
(* uc_begin     position on disk of the Begin of the last checkpoint()     *)
(*              that returned since the engine was opened (0: none)        *)
(* uc_halt      while recovery flushes: the position of the entry its      *)
(*              walk read last (0: it read none)                           *)
(* uc_base      the number of entries the file had when the engine was     *)
(*              opened                                                     *)
(***************************************************************************)
VARIABLES uc_file, uc_mem, uc_last_tid, uc_active, uc_cp, uc_store, uc_flushed,
          uc_pc, uc_arg, uc_begin, uc_halt, uc_base

uc_vars == << uc_file, uc_mem, uc_last_tid, uc_active, uc_cp, uc_store, uc_flushed,
              uc_pc, uc_arg, uc_begin, uc_halt, uc_base >>

(***************************************************************************)
(* A log file written with Writer::append and read with WalIterator and    *)
(* read_serializable, the way the tests of writer.rs, iterator.rs and      *)
(* mod.rs use them.                                                        *)
(*                                                                         *)
(* w_file   the records appended, in order, each with the offset it was    *)
(*          written at                                                     *)
(* w_it     the iterator: open (one exists), file_len, pos, block (the     *)
(*          records of the loaded block, as indices into w_file) and       *)
(*          block_index, each Option with its has_ flag                    *)
(* w_calls  what the calls made on the iterator returned, in order: op     *)
(*          and res (index of the record into w_file, 0: None, -1: panic)  *)
(* w_walk   done: two fresh iterators were walked to their end on the      *)
(*          file as it is, one with next(), one with next_back(); fwd and  *)
(*          bwd: what they yielded (a trailing 0: the walk panicked)       *)
(* w_read   done: read_serializable on a fresh iterator and                *)
(*          read_serializable_backwards on another were called on the file *)
(*          as it is; fwd and bwd: the results                             *)
(***************************************************************************)
VARIABLES w_file, w_it, w_calls, w_walk, w_read

w_vars == << w_file, w_it, w_calls, w_walk, w_read >>

\* split_bytes_into_records on bytes: the byte vector and the chunk size it
\* is called with, and the records it returned (s_done once it has).
VARIABLES s_bytes, s_size, s_records, s_done

s_vars == << s_bytes, s_size, s_records, s_done >>

\* One record written to a byte buffer and read back: the record, the
\* buffer, the index of the byte that was changed in the buffer (0: none),
\* the step ("new", "written", "read") and what Record::read returned.
VARIABLES b_record, b_bytes, b_changed, b_pc, b_result

b_vars == << b_record, b_bytes, b_changed, b_pc, b_result >>

\* read_serializable and read_serializable_backwards on an iterator that
\* yields given records: the records it yields (indices into RecordPool, in
\* the order of the calls) and what each reader returned on it.
VARIABLES g_stream, g_fwd, g_bwd, g_done

g_vars == << g_stream, g_fwd, g_bwd, g_done >>

vars == << u_vars, r_vars, uc_vars, w_vars, s_vars, b_vars, g_vars >>

\* What an operation of one program leaves alone: the state of the others.
u_others == << r_vars, uc_vars, w_vars, s_vars, b_vars, g_vars >>
r_others == << u_vars, uc_vars, w_vars, s_vars, b_vars, g_vars >>
uc_others == << u_vars, r_vars, w_vars, s_vars, b_vars, g_vars >>
w_others == << u_vars, r_vars, uc_vars, s_vars, b_vars, g_vars >>
s_others == << u_vars, r_vars, uc_vars, w_vars, b_vars, g_vars >>
b_others == << u_vars, r_vars, uc_vars, w_vars, s_vars, g_vars >>
g_others == << u_vars, r_vars, uc_vars, w_vars, s_vars, b_vars >>

\* How many records of an entry a flush that is cut short has written: the
\* First record alone, or the First record and Middle records.
TornCounts == {1, 2}

EmptyStore == [k \in Keys |-> NoVal]
NoPre == [k \in Keys |-> Untouched]

U_Init ==
    /\ u_file = <<>>
    /\ u_mem = <<>>
    /\ u_tid = 0
    /\ u_store = EmptyStore
    /\ u_flushed = EmptyStore
    /\ u_pc = "closed"
    /\ u_started = FALSE
    /\ u_fresh = FALSE
    /\ u_pre = NoPre
    /\ u_ptid = 0
    /\ u_failed = 0
    /\ u_gflush = FALSE
    /\ u_starts = <<>>
    /\ u_done = 0
    /\ u_staged = <<>>
    /\ u_base = 0
    /\ u_ioerr = FALSE

\* The backward walk of recover() over the entries read (indices into the
\* file, last first): the finished and unfinished sets and the store after
\* the undo of every Insert and Change of a transaction not seen finished.
RECURSIVE recover_walk(_, _, _, _, _, _)
recover_walk(file, ents, i, finished, unfinished, store) ==
    IF i > Len(ents)
       THEN [finished |-> finished, unfinished |-> unfinished, store |-> store]
    ELSE LET e == file[ents[i]] IN
         CASE IsTxnEnd(e) ->
                recover_walk(file, ents, i + 1, finished \cup {e.tid}, unfinished, store)
           [] e.type = "Insert" /\ e.tid \notin finished ->
                recover_walk(file, ents, i + 1, finished, unfinished \cup {e.tid},
                             [store EXCEPT ![e.key] = NoVal])
           [] e.type = "Change" /\ e.tid \notin finished ->
                recover_walk(file, ents, i + 1, finished, unfinished \cup {e.tid},
                             [store EXCEPT ![e.key] = e.val])
           [] OTHER -> recover_walk(file, ents, i + 1, finished, unfinished, store)

\* UndoLog::new on the file and the store as the last run left them.  The
\* last entry is read backwards: a Commit or Abort sets tid, any other entry
\* starts recover(), no entry (the iterator yields nothing) leaves tid at 0.
\* recover() walks the log backwards, undoes, stages one Abort per unfinished
\* tid in the HashSet's order and sets tid to the largest unfinished tid; its
\* flush is the steps U_FlushEntry, ended by U_RecoverDone.
U_Open ==
    /\ u_pc = "closed"
    /\ \E lay \in {Layout(u_file)} : \E stream \in {next_back(lay)} :
         \E first \in {read_serializable_backwards(lay, stream, 1)} :
           CASE first.res = "panic" ->
                  /\ u_pc' = "panicked"
                  /\ UNCHANGED << u_mem, u_tid, u_store, u_fresh >>
             [] first.res = "err" ->
                  /\ u_pc' = "idle"
                  /\ u_tid' = 0
                  /\ u_fresh' = TRUE
                  /\ UNCHANGED << u_mem, u_store >>
             [] first.res = "ok" /\ IsTxnEnd(u_file[first.ent]) ->
                  /\ u_pc' = "idle"
                  /\ u_tid' = u_file[first.ent].tid
                  /\ u_fresh' = TRUE
                  /\ UNCHANGED << u_mem, u_store >>
             [] OTHER ->
                  \E walk \in {ReadAllBackwards(lay, stream, 1)} :
                  \E w \in {recover_walk(u_file, walk.ents, 1, {}, {}, u_store)} :
                    /\ u_store' = w.store
                    /\ IF walk.panic
                          THEN /\ u_pc' = "panicked"
                               /\ UNCHANGED << u_mem, u_tid, u_fresh >>
                          ELSE /\ \E order \in Orders(w.unfinished) :
                                     u_mem' = [i \in 1..Len(order) |-> AbortE(order[i])]
                               /\ u_tid' = IF w.unfinished = {} THEN 0 ELSE SetMax(w.unfinished)
                               /\ u_pc' = "recover"
                               /\ u_fresh' = FALSE
    /\ u_started' = FALSE
    /\ UNCHANGED << u_file, u_flushed, u_pre, u_ptid, u_failed, u_gflush >>
    /\ u_starts' = <<>>
    /\ u_done' = 0
    /\ u_staged' = u_mem'
    /\ u_base' = Len(u_file)
    /\ u_ioerr' = FALSE
    /\ UNCHANGED u_others

\* The end of recover()'s flush: UndoLog::new returns the engine.
U_RecoverDone ==
    /\ u_pc = "recover"
    /\ u_mem = <<>>
    /\ u_pc' = "idle"
    /\ u_fresh' = TRUE
    /\ UNCHANGED << u_file, u_mem, u_tid, u_store, u_flushed,
                    u_started, u_pre, u_ptid, u_failed, u_gflush >>
    /\ UNCHANGED u_starts
    /\ u_done' = 0
    /\ UNCHANGED << u_staged, u_base, u_ioerr >>
    /\ UNCHANGED u_others

\* flush(): the staged entries are appended front to back, one entry per
\* step (a crash can fall between two of them).
U_FlushEntry ==
    /\ u_pc \in {"commit1", "commit2", "abort", "recover"}
    /\ u_mem # <<>>
    /\ u_file' = Append(u_file, Head(u_mem))
    /\ u_mem' = Tail(u_mem)
    /\ UNCHANGED << u_tid, u_store, u_flushed, u_pc,
                    u_started, u_fresh, u_pre, u_ptid, u_failed, u_gflush >>
    /\ UNCHANGED u_starts
    /\ u_done' = u_done + 1
    /\ UNCHANGED << u_staged, u_base, u_ioerr >>
    /\ UNCHANGED u_others

\* flush() returns the error of a writer.append that failed: log.clear() is
\* not reached, so mem_log still holds every entry it held when flush()
\* began, those already appended included, and the caller (commit, abort)
\* returns the error.  A failed flush in recover() makes UndoLog::new return
\* the error: there is no engine.
U_FlushError ==
    /\ u_pc \in {"commit1", "commit2", "abort", "recover"}
    /\ u_mem # <<>>
    /\ Len(u_file) + u_done + Len(u_mem) < MaxLog
    /\ IF u_pc = "recover"
          THEN /\ u_pc' = "closed"
               /\ u_mem' = <<>>
               /\ u_tid' = 0
               /\ u_store' = u_flushed
               /\ u_started' = FALSE
               /\ u_starts' = <<>>
               /\ u_staged' = <<>>
               /\ u_base' = 0
               /\ u_ioerr' = FALSE
          ELSE /\ u_pc' = "idle"
               /\ u_mem' = SubSeq(u_file, Len(u_file) - u_done + 1, Len(u_file)) \o u_mem
               /\ u_ioerr' = TRUE
               /\ UNCHANGED << u_tid, u_store, u_started, u_starts, u_staged, u_base >>
    /\ u_done' = 0
    /\ UNCHANGED << u_file, u_flushed, u_fresh, u_pre, u_ptid, u_failed, u_gflush >>
    /\ UNCHANGED u_others

\* start(): stages Start(tid + 1).
U_Start ==
    /\ u_pc = "idle"
    /\ u_tid < MaxTid
    /\ Len(u_file) + Len(u_mem) + 1 < MaxLog
    /\ u_mem' = Append(u_mem, StartE(u_tid + 1))
    /\ u_started' = TRUE
    /\ u_fresh' = FALSE
    /\ u_pre' = IF u_started THEN u_pre ELSE NoPre
    /\ u_ptid' = u_tid + 1
    /\ u_failed' = 0
    /\ UNCHANGED << u_file, u_tid, u_store, u_flushed, u_pc, u_gflush >>
    /\ u_starts' = Append(u_starts, u_tid + 1)
    /\ u_staged' = Append(u_staged, StartE(u_tid + 1))
    /\ UNCHANGED << u_done, u_base, u_ioerr >>
    /\ UNCHANGED u_others

\* A write whose Change entry carries the new value instead of the old one.
U_Write_stages_new_value(k, v) ==
    /\ u_pc = "idle"
    /\ Len(u_file) + Len(u_mem) + 1 < MaxLog
    /\ u_mem' = Append(u_mem, IF u_store[k] # NoVal
                                 THEN ChangeE(u_tid + 1, k, v)
                                 ELSE InsertE(u_tid + 1, k))
    /\ u_store' = [u_store EXCEPT ![k] = v]
    /\ u_pre' = IF u_started /\ u_pre[k] = Untouched
                   THEN [u_pre EXCEPT ![k] = u_store[k]] ELSE u_pre
    /\ u_gflush' = FALSE
    /\ u_fresh' = FALSE
    /\ u_failed' = 0
    /\ UNCHANGED << u_file, u_tid, u_flushed, u_pc, u_started, u_ptid >>
    /\ UNCHANGED u_starts
    /\ u_staged' = Append(u_staged, u_mem'[Len(u_mem')])
    /\ UNCHANGED << u_done, u_base, u_ioerr >>
    /\ UNCHANGED u_others

\* write(key, val): stages Change{tid + 1, key, old} when the store has the
\* key and Insert{tid + 1, key} otherwise, and updates the store.
U_Write(k, v) ==
    /\ u_pc = "idle"
    /\ Len(u_file) + Len(u_mem) + 1 < MaxLog
    /\ u_mem' = Append(u_mem, IF u_store[k] # NoVal
                                 THEN ChangeE(u_tid + 1, k, u_store[k])
                                 ELSE InsertE(u_tid + 1, k))
    /\ u_store' = [u_store EXCEPT ![k] = v]
    /\ u_pre' = IF u_started /\ u_pre[k] = Untouched
                   THEN [u_pre EXCEPT ![k] = u_store[k]] ELSE u_pre
    /\ u_gflush' = FALSE
    /\ u_fresh' = FALSE
    /\ u_failed' = 0
    /\ UNCHANGED << u_file, u_tid, u_flushed, u_pc, u_started, u_ptid >>
    /\ UNCHANGED u_starts
    /\ u_staged' = Append(u_staged, u_mem'[Len(u_mem')])
    /\ UNCHANGED << u_done, u_base, u_ioerr >>
    /\ UNCHANGED u_others

\* commit(): flush(), the steps U_FlushEntry ...
U_Commit ==
    /\ u_pc = "idle"
    /\ u_started
    /\ u_pc' = "commit1"
    /\ u_fresh' = FALSE
    /\ u_failed' = 0
    /\ UNCHANGED << u_file, u_mem, u_tid, u_store, u_flushed,
                    u_started, u_pre, u_ptid, u_gflush >>
    /\ UNCHANGED u_starts
    /\ u_done' = 0
    /\ UNCHANGED << u_staged, u_base, u_ioerr >>
    /\ UNCHANGED u_others

\* A commit that calls store.flush() without waiting for the end of flush().
U_CommitStoreFlush_before_flush(ok) ==
    /\ u_pc = "commit1"
    /\ IF ok
          THEN /\ u_flushed' = u_store
               /\ u_mem' = Append(u_mem, CommitE(u_tid + 1))
               /\ u_pc' = "commit2"
               /\ u_gflush' = TRUE
               /\ UNCHANGED u_failed
          ELSE /\ u_flushed' \in {u_flushed, u_store}
               /\ u_pc' = "idle"
               /\ u_failed' = u_tid + 1
               /\ UNCHANGED << u_mem, u_gflush >>
    /\ UNCHANGED << u_file, u_tid, u_store, u_started, u_fresh, u_pre, u_ptid >>
    /\ UNCHANGED u_starts
    /\ u_done' = 0
    /\ u_staged' = IF ok THEN Append(u_staged, CommitE(u_tid + 1)) ELSE u_staged
    /\ UNCHANGED << u_base, u_ioerr >>
    /\ UNCHANGED u_others

\* ... then store.flush()?.  On success the store's contents are durable and
\* Commit(tid + 1) is staged.  On failure commit returns the error; what the
\* failed flush left durable is the old or the new contents.
U_CommitStoreFlush(ok) ==
    /\ u_pc = "commit1"
    /\ u_mem = <<>>
    /\ IF ok
          THEN /\ u_flushed' = u_store
               /\ u_mem' = << CommitE(u_tid + 1) >>
               /\ u_pc' = "commit2"
               /\ u_gflush' = TRUE
               /\ UNCHANGED u_failed
          ELSE /\ u_flushed' \in {u_flushed, u_store}
               /\ u_pc' = "idle"
               /\ u_failed' = u_tid + 1
               /\ UNCHANGED << u_mem, u_gflush >>
    /\ UNCHANGED << u_file, u_tid, u_store, u_started, u_fresh, u_pre, u_ptid >>
    /\ UNCHANGED u_starts
    /\ u_done' = 0
    /\ u_staged' = IF ok THEN Append(u_staged, CommitE(u_tid + 1)) ELSE u_staged
    /\ UNCHANGED << u_base, u_ioerr >>
    /\ UNCHANGED u_others

\* ... then flush() of the Commit and tid += 1.
U_CommitDone ==
    /\ u_pc = "commit2"
    /\ u_mem = <<>>
    /\ u_tid' = u_tid + 1
    /\ u_pc' = "idle"
    /\ u_started' = FALSE
    /\ UNCHANGED << u_file, u_mem, u_store, u_flushed,
                    u_fresh, u_pre, u_ptid, u_failed, u_gflush >>
    /\ UNCHANGED u_starts
    /\ u_done' = 0
    /\ UNCHANGED << u_staged, u_base, u_ioerr >>
    /\ UNCHANGED u_others

\* abort(): stages Abort(tid + 1), flush() ...
U_Abort ==
    /\ u_pc = "idle"
    /\ u_started
    /\ u_mem' = Append(u_mem, AbortE(u_tid + 1))
    /\ u_pc' = "abort"
    /\ u_fresh' = FALSE
    /\ u_failed' = 0
    /\ UNCHANGED << u_file, u_tid, u_store, u_flushed,
                    u_started, u_pre, u_ptid, u_gflush >>
    /\ UNCHANGED u_starts
    /\ u_done' = 0
    /\ u_staged' = Append(u_staged, AbortE(u_tid + 1))
    /\ UNCHANGED << u_base, u_ioerr >>
    /\ UNCHANGED u_others

\* ... and tid += 1.
U_AbortDone ==
    /\ u_pc = "abort"
    /\ u_mem = <<>>
    /\ u_tid' = u_tid + 1
    /\ u_pc' = "idle"
    /\ u_started' = FALSE
    /\ UNCHANGED << u_file, u_mem, u_store, u_flushed,
                    u_fresh, u_pre, u_ptid, u_failed, u_gflush >>
    /\ UNCHANGED u_starts
    /\ u_done' = 0
    /\ UNCHANGED << u_staged, u_base, u_ioerr >>
    /\ UNCHANGED u_others

\* The process ends (a crash, a panic, or the engine being dropped): the
\* staged entries and the store's volatile contents are lost, the file and
\* the durable contents stay.
U_Crash ==
    /\ u_pc # "closed"
    /\ u_pc' = "closed"
    /\ u_mem' = <<>>
    /\ u_tid' = 0
    /\ u_store' = u_flushed
    /\ u_started' = FALSE
    /\ u_fresh' = FALSE
    /\ UNCHANGED << u_file, u_flushed, u_pre, u_ptid, u_failed, u_gflush >>
    /\ u_starts' = <<>>
    /\ u_done' = 0
    /\ u_staged' = <<>>
    /\ u_base' = 0
    /\ u_ioerr' = FALSE
    /\ UNCHANGED u_others

\* The process ends inside flush(), between two writer.append calls of one
\* entry: the first n records of the entry are in the file, the staged
\* entries and the store's volatile contents are lost.
U_CrashInFlush(n) ==
    /\ u_pc \in {"commit1", "commit2", "abort", "recover"}
    /\ u_mem # <<>>
    /\ Head(u_mem).type = "Change"
    /\ n < NumChunks(EntrySize(Head(u_mem)))
    /\ u_file' = Append(u_file, TornE(Head(u_mem).val, n))
    /\ u_pc' = "closed"
    /\ u_mem' = <<>>
    /\ u_tid' = 0
    /\ u_store' = u_flushed
    /\ u_started' = FALSE
    /\ u_fresh' = FALSE
    /\ UNCHANGED << u_flushed, u_pre, u_ptid, u_failed, u_gflush >>
    /\ u_starts' = <<>>
    /\ u_done' = 0
    /\ u_staged' = <<>>
    /\ u_base' = 0
    /\ u_ioerr' = FALSE
    /\ UNCHANGED u_others

U_Next ==
    \/ U_Open
    \/ U_RecoverDone
    \/ U_FlushEntry
    \/ U_FlushError
    \/ U_Start
    \/ \E k \in Keys, v \in Values : U_Write(k, v)
    \/ U_Commit
    \/ \E ok \in BOOLEAN : U_CommitStoreFlush(ok)
    \/ U_CommitDone
    \/ U_Abort
    \/ U_AbortDone
    \/ U_Crash
    \/ \E n \in TornCounts : U_CrashInFlush(n)


(***************************************************************************)
(* Properties of the undo engine                                           *)
(***************************************************************************)
OnDisk(file, type, t) == \E i \in DOMAIN file : file[i].type = type /\ file[i].tid = t
WroteOnDisk(file, t) == \E i \in DOMAIN file : IsWrite(file[i]) /\ file[i].tid = t
TidsOnDisk(file) == { file[i].tid : i \in { j \in DOMAIN file : file[j].type \notin {"Begin", "End"} } }

\* C1: in every reachable state of the undo engine, when Commit(t) is on disk
\* every Insert and Change of t is on disk at an earlier position, and the
\* Commit is only appended after a store.flush() that succeeded after the
\* last write.
C1_CommitAfterWritesAndStoreFlush ==
    /\ \A i, j \in DOMAIN u_file :
          (u_file[i].type = "Commit" /\ IsWrite(u_file[j]) /\ u_file[j].tid = u_file[i].tid)
             => j < i
    /\ (u_pc = "commit2" => u_gflush)

\* C2: when the commit of t failed at store.flush(), no Commit(t) is on disk,
\* and once the next UndoLog::new has returned, t (which wrote) is rolled
\* back in the store and Abort(t) is on disk.
C2_FailedCommitIsAborted ==
    (u_failed # 0 /\ \E k \in Keys : u_pre[k] # Untouched) =>
       /\ ~OnDisk(u_file, "Commit", u_failed)
       /\ u_fresh =>
             /\ OnDisk(u_file, "Abort", u_failed)
             /\ \A k \in Keys : u_pre[k] # Untouched => u_store[k] = u_pre[k]

\* C4: after a crash and the reopening, for the transaction started last, if
\* it has no Commit on disk, every key it wrote holds in the store the value
\* it had before the transaction's first write to it (no entry if the
\* transaction created it).
C4_RecoveredStoreHoldsPreImages ==
    (u_fresh /\ u_ptid # 0 /\ ~OnDisk(u_file, "Commit", u_ptid)) =>
       \A k \in Keys : u_pre[k] # Untouched => u_store[k] = u_pre[k]

\* C5: after UndoLog::new has returned, every tid with an Insert or Change on
\* disk has a Commit or Abort on disk; and the Aborts that recover() stages
\* are for tids with neither a Commit nor an Abort on disk, one each.
C5_EveryWriterIsFinishedAfterOpen ==
    /\ u_fresh =>
          \A t \in TidsOnDisk(u_file) :
             WroteOnDisk(u_file, t) => (OnDisk(u_file, "Commit", t) \/ OnDisk(u_file, "Abort", t))
    /\ u_pc = "recover" =>
          \A i \in DOMAIN u_mem :
             /\ u_mem[i].type = "Abort"
             /\ ~OnDisk(u_file, "Commit", u_mem[i].tid)
             /\ ~OnDisk(u_file, "Abort", u_mem[i].tid)
             /\ \A j \in DOMAIN u_mem : u_mem[j].tid = u_mem[i].tid => j = i

\* C6: after UndoLog::new has returned, the tid the next start() uses
\* (tid + 1) is greater than every tid on disk, and is 1 on an empty log.
C6_NextTidIsNew ==
    u_fresh =>
       /\ \A t \in TidsOnDisk(u_file) : t < u_tid + 1
       /\ (u_file = <<>> => u_tid + 1 = 1)

(***************************************************************************)
(* The redo engine (redo_log.rs): operations                               *)
(***************************************************************************)
R_Values == {"a", "b"}

NoCp == [st |-> "none", tids |-> {}, calls |-> <<>>]

R_Init ==
    /\ r_file = <<>>
    /\ r_mem = <<>>
    /\ r_last_tid = 0
    /\ r_active = {}
    /\ r_changes = <<>>
    /\ r_committed = {}
    /\ r_store = EmptyStore
    /\ r_flushed = EmptyStore
    /\ r_pc = "closed"
    /\ r_arg = 0
    /\ r_fresh = FALSE
    /\ r_failed = 0
    /\ r_started = {}
    /\ r_cp = NoCp
    /\ r_halt = 0
    /\ r_calls = <<>>
    /\ r_again = "no"

\* The iterator with a read direction that recover() uses is not among the
\* sources; it is taken as the specification document describes it (4.3):
\* walked backwards it yields every record of the file, last first, and the
\* first next() after a next_back() returns the record next_back() returned
\* last.  So the second pass starts on the entry the first pass read last
\* (last_read), and reads nothing on an empty file.
ForwardStart(file, last_read) == IF file = <<>> THEN 0 ELSE last_read

\* The first pass with the test of line 141 dropped: inside a Begin frame it
\* stops at the first Start of a tid of the frame it meets.
RECURSIVE backward_pass_first_start(_, _, _, _, _, _)
backward_pass_first_start(file, i, committed, uncommitted, aborted, state) ==
    LET result(l) == [committed |-> committed, uncommitted |-> uncommitted,
                      aborted |-> aborted,
                      last |-> IF file = <<>> THEN 0 ELSE l,
                      halt |-> ForwardStart(file, l)] IN
    IF i = 0 THEN result(1)
    ELSE LET e == file[i] IN
         CASE e.type = "Commit" ->
                backward_pass_first_start(file, i - 1, committed \cup {e.tid},
                                          uncommitted, aborted, state)
           [] e.type = "Abort" ->
                backward_pass_first_start(file, i - 1, committed, uncommitted,
                                          aborted \cup {e.tid}, state)
           [] e.type = "Start" ->
                IF state.tag = "Begin" /\ e.tid \in state.tids THEN result(i)
                ELSE backward_pass_first_start(file, i - 1, committed, uncommitted,
                                               aborted, state)
           [] e.type = "Change" ->
                backward_pass_first_start(file, i - 1, committed,
                              IF e.tid \notin committed /\ e.tid \notin aborted
                                 THEN uncommitted \cup {e.tid} ELSE uncommitted,
                              aborted, state)
           [] e.type = "Begin" ->
                IF state.tag = "End"
                   THEN IF e.tids = {} THEN result(i)
                        ELSE backward_pass_first_start(file, i - 1, committed, uncommitted,
                                                       aborted, [tag |-> "Begin", tids |-> e.tids])
                   ELSE backward_pass_first_start(file, i - 1, committed, uncommitted,
                                                  aborted, state)
           [] e.type = "End" ->
                backward_pass_first_start(file, i - 1, committed, uncommitted, aborted,
                              IF state.tag = "None" THEN [tag |-> "End", tids |-> {}] ELSE state)
           [] OTHER -> backward_pass_first_start(file, i - 1, committed, uncommitted,
                                                 aborted, state)

\* The first pass with the test of line 152 dropped: every Begin bounds the
\* pass, with or without an End after it.
RECURSIVE backward_pass_any_begin(_, _, _, _, _, _)
backward_pass_any_begin(file, i, committed, uncommitted, aborted, state) ==
    LET result(l) == [committed |-> committed, uncommitted |-> uncommitted,
                      aborted |-> aborted,
                      last |-> IF file = <<>> THEN 0 ELSE l,
                      halt |-> ForwardStart(file, l)] IN
    IF i = 0 THEN result(1)
    ELSE LET e == file[i] IN
         CASE e.type = "Commit" ->
                backward_pass_any_begin(file, i - 1, committed \cup {e.tid}, uncommitted, aborted, state)
           [] e.type = "Abort" ->
                backward_pass_any_begin(file, i - 1, committed, uncommitted, aborted \cup {e.tid}, state)
           [] e.type = "Start" ->
                IF state.tag = "Begin"
                   THEN IF state.tids \ {e.tid} = {} THEN result(i)
                        ELSE backward_pass_any_begin(file, i - 1, committed, uncommitted, aborted,
                                           [state EXCEPT !.tids = state.tids \ {e.tid}])
                   ELSE backward_pass_any_begin(file, i - 1, committed, uncommitted, aborted, state)
           [] e.type = "Change" ->
                backward_pass_any_begin(file, i - 1, committed,
                              IF e.tid \notin committed /\ e.tid \notin aborted
                                 THEN uncommitted \cup {e.tid} ELSE uncommitted,
                              aborted, state)
           [] e.type = "Begin" ->
                IF e.tids = {} THEN result(i)
                ELSE backward_pass_any_begin(file, i - 1, committed, uncommitted, aborted,
                                             [tag |-> "Begin", tids |-> e.tids])
           [] e.type = "End" ->
                backward_pass_any_begin(file, i - 1, committed, uncommitted, aborted,
                              IF state.tag = "None" THEN [tag |-> "End", tids |-> {}] ELSE state)
           [] OTHER -> backward_pass_any_begin(file, i - 1, committed, uncommitted, aborted, state)

\* The first pass without line 136: the tid of an Abort is not recorded.
RECURSIVE backward_pass_skips_abort(_, _, _, _, _, _)
backward_pass_skips_abort(file, i, committed, uncommitted, aborted, state) ==
    LET result(l) == [committed |-> committed, uncommitted |-> uncommitted,
                      aborted |-> aborted,
                      last |-> IF file = <<>> THEN 0 ELSE l,
                      halt |-> ForwardStart(file, l)] IN
    IF i = 0 THEN result(1)
    ELSE LET e == file[i] IN
         CASE e.type = "Commit" ->
                backward_pass_skips_abort(file, i - 1, committed \cup {e.tid}, uncommitted, aborted, state)
           [] e.type = "Abort" ->
                backward_pass_skips_abort(file, i - 1, committed, uncommitted, aborted, state)
           [] e.type = "Start" ->
                IF state.tag = "Begin"
                   THEN IF state.tids \ {e.tid} = {} THEN result(i)
                        ELSE backward_pass_skips_abort(file, i - 1, committed, uncommitted, aborted,
                                           [state EXCEPT !.tids = state.tids \ {e.tid}])
                   ELSE backward_pass_skips_abort(file, i - 1, committed, uncommitted, aborted, state)
           [] e.type = "Change" ->
                backward_pass_skips_abort(file, i - 1, committed,
                              IF e.tid \notin committed /\ e.tid \notin aborted
                                 THEN uncommitted \cup {e.tid} ELSE uncommitted,
                              aborted, state)
           [] e.type = "Begin" ->
                IF state.tag = "End"
                   THEN IF e.tids = {} THEN result(i)
                        ELSE backward_pass_skips_abort(file, i - 1, committed, uncommitted, aborted,
                                           [tag |-> "Begin", tids |-> e.tids])
                   ELSE backward_pass_skips_abort(file, i - 1, committed, uncommitted, aborted, state)
           [] e.type = "End" ->
                backward_pass_skips_abort(file, i - 1, committed, uncommitted, aborted,
                              IF state.tag = "None" THEN [tag |-> "End", tids |-> {}] ELSE state)
           [] OTHER -> backward_pass_skips_abort(file, i - 1, committed, uncommitted, aborted, state)

\* First pass of recover(): entries are read from the last one backwards.
\* i is the entry about to be read (0: none left, the read fails and the
\* loop ends).  The result carries the three sets, last, the entry read
\* last (0 on an empty file), and halt, the entry the second pass starts on.
RECURSIVE backward_pass(_, _, _, _, _, _)
backward_pass(file, i, committed, uncommitted, aborted, state) ==
    LET result(l) == [committed |-> committed, uncommitted |-> uncommitted,
                      aborted |-> aborted,
                      last |-> IF file = <<>> THEN 0 ELSE l,
                      halt |-> ForwardStart(file, l)] IN
    IF i = 0 THEN result(1)
    ELSE LET e == file[i] IN
         CASE e.type = "Commit" ->
                backward_pass(file, i - 1, committed \cup {e.tid}, uncommitted, aborted, state)
           [] e.type = "Abort" ->
                backward_pass(file, i - 1, committed, uncommitted, aborted \cup {e.tid}, state)
           [] e.type = "Start" ->
                IF state.tag = "Begin"
                   THEN IF state.tids \ {e.tid} = {} THEN result(i)
                        ELSE backward_pass(file, i - 1, committed, uncommitted, aborted,
                                           [state EXCEPT !.tids = state.tids \ {e.tid}])
                   ELSE backward_pass(file, i - 1, committed, uncommitted, aborted, state)
           [] e.type = "Change" ->
                backward_pass(file, i - 1, committed,
                              IF e.tid \notin committed /\ e.tid \notin aborted
                                 THEN uncommitted \cup {e.tid} ELSE uncommitted,
                              aborted, state)
           [] e.type = "Begin" ->
                IF state.tag = "End"
                   THEN IF e.tids = {} THEN result(i)
                        ELSE backward_pass(file, i - 1, committed, uncommitted, aborted,
                                           [tag |-> "Begin", tids |-> e.tids])
                   ELSE backward_pass(file, i - 1, committed, uncommitted, aborted, state)
           [] e.type = "End" ->
                backward_pass(file, i - 1, committed, uncommitted, aborted,
                              IF state.tag = "None" THEN [tag |-> "End", tids |-> {}] ELSE state)
           [] OTHER -> backward_pass(file, i - 1, committed, uncommitted, aborted, state)

\* The second pass with its test inverted: it applies the Changes of the
\* tids that are not committed.
RECURSIVE forward_pass_uncommitted(_, _, _, _)
forward_pass_uncommitted(file, i, committed, store) ==
    IF i = 0 \/ i > Len(file) THEN store
    ELSE forward_pass_uncommitted(file, i + 1, committed,
                      IF file[i].type = "Change" /\ file[i].tid \notin committed
                         THEN [store EXCEPT ![file[i].key] = file[i].val]
                         ELSE store)

\* Second pass of recover(): from the entry the first pass read last, to the
\* end of the file, every Change of a committed tid is applied to the store.
RECURSIVE forward_pass(_, _, _, _)
forward_pass(file, i, committed, store) ==
    IF i = 0 \/ i > Len(file) THEN store
    ELSE forward_pass(file, i + 1, committed,
                      IF file[i].type = "Change" /\ file[i].tid \in committed
                         THEN [store EXCEPT ![file[i].key] = file[i].val]
                         ELSE store)

\* The store.update calls of the second pass, in the order they are made:
\* the positions of the Change entries passed to store.update.
RECURSIVE forward_calls(_, _, _)
forward_calls(file, i, committed) ==
    IF i = 0 \/ i > Len(file) THEN <<>>
    ELSE (IF file[i].type = "Change" /\ file[i].tid \in committed
             THEN << i >> ELSE <<>>)
         \o forward_calls(file, i + 1, committed)

\* flush_changes without the test of line 224: per key the value of the last
\* staged change of any tid.
flush_changes_any_tid(changes, committed) ==
    [k \in Keys |->
        LET idx == { i \in DOMAIN changes : changes[i][2] = k } IN
        IF idx = {} THEN Untouched
        ELSE changes[CHOOSE i \in idx : \A j \in idx : j <= i][3]]

\* Changes::flush_changes: per key the value of the last staged change of a
\* committed tid (Untouched: the key is not in the map).
flush_changes(changes, committed) ==
    [k \in Keys |->
        LET idx == { i \in DOMAIN changes : changes[i][2] = k /\ changes[i][1] \in committed } IN
        IF idx = {} THEN Untouched
        ELSE changes[CHOOSE i \in idx : \A j \in idx : j <= i][3]]

\* RedoLog::new: recover() up to its store.flush()?.  When the flush fails
\* new returns the error and there is no engine; what the failed flush left
\* durable is the old or the new contents.  Otherwise one Abort per
\* uncommitted tid is staged in the HashSet's order and last_tid is the
\* largest tid of the three sets; the flush that follows is the steps
\* R_FlushEntry, ended by R_RecoverDone.
R_Open(ok) ==
    /\ r_pc = "closed"
    /\ \E b \in {backward_pass(r_file, Len(r_file), {}, {}, {}, [tag |-> "None", tids |-> {}])} :
       \E store \in {forward_pass(r_file, b.halt, b.committed, r_store)} :
         IF ok
            THEN /\ r_store' = store
                 /\ r_flushed' = store
                 /\ r_calls' = forward_calls(r_file, b.halt, b.committed)
                 /\ \E order \in Orders(b.uncommitted) :
                       r_mem' = [i \in 1..Len(order) |-> AbortE(order[i])]
                 /\ r_last_tid' = SetMax(b.committed \cup b.uncommitted \cup b.aborted)
                 /\ r_pc' = "recover"
                 /\ r_halt' = b.last
            ELSE /\ r_flushed' \in {r_flushed, store}
                 /\ r_store' = r_flushed'
                 /\ UNCHANGED << r_mem, r_last_tid, r_pc, r_halt, r_calls >>
    /\ r_active' = {}
    /\ r_started' = {}
    /\ r_cp' = NoCp
    /\ r_changes' = <<>>
    /\ r_committed' = {}
    /\ r_fresh' = FALSE
    /\ UNCHANGED << r_file, r_arg, r_failed >>
    /\ UNCHANGED r_again
    /\ UNCHANGED r_others

R_RecoverDone ==
    /\ r_pc = "recover"
    /\ r_mem = <<>>
    /\ r_pc' = "idle"
    /\ r_fresh' = TRUE
    /\ r_halt' = 0
    /\ UNCHANGED << r_file, r_mem, r_last_tid, r_active, r_changes, r_committed,
                    r_store, r_flushed, r_arg, r_failed, r_started, r_cp >>
    /\ r_calls' = <<>>
    /\ UNCHANGED r_again
    /\ UNCHANGED r_others

\* flush(): the staged entries are appended front to back, one per step.
R_FlushEntry ==
    /\ r_pc \in {"recover", "commit", "cp1", "cp2"}
    /\ r_mem # <<>>
    /\ r_file' = Append(r_file, Head(r_mem))
    /\ r_mem' = Tail(r_mem)
    /\ UNCHANGED << r_last_tid, r_active, r_changes, r_committed, r_store, r_flushed,
                    r_pc, r_arg, r_fresh, r_failed, r_started, r_cp, r_halt >>
    /\ UNCHANGED r_calls
    /\ UNCHANGED r_again
    /\ UNCHANGED r_others

\* start(): last_tid += 1, stages Start(last_tid), the tid becomes active.
R_Start ==
    /\ r_pc = "idle"
    /\ r_last_tid < MaxTid
    /\ Len(r_file) + Len(r_mem) + 1 < MaxLog
    /\ r_last_tid' = r_last_tid + 1
    /\ r_mem' = Append(r_mem, StartE(r_last_tid + 1))
    /\ r_active' = r_active \cup {r_last_tid + 1}
    /\ r_fresh' = FALSE
    /\ r_failed' = 0
    /\ r_started' = r_started \cup {r_last_tid + 1}
    /\ r_cp' = NoCp
    /\ UNCHANGED << r_file, r_changes, r_committed, r_store, r_flushed,
                    r_pc, r_arg, r_halt >>
    /\ UNCHANGED r_calls
    /\ r_again' = "no"
    /\ UNCHANGED r_others

\* write(tid, key, val): nothing when tid is not active; otherwise the change
\* is recorded in changes, the store is updated and Change is staged.
R_Write(tid, k, v) ==
    /\ r_pc = "idle"
    /\ Len(r_file) + Len(r_mem) + 1 < MaxLog
    /\ IF tid \in r_active
          THEN /\ r_changes' = Append(r_changes, <<tid, k, v>>)
               /\ r_store' = [r_store EXCEPT ![k] = v]
               /\ r_mem' = Append(r_mem, ChangeE(tid, k, v))
               /\ r_fresh' = FALSE
               /\ r_failed' = 0
               /\ r_cp' = NoCp
          ELSE UNCHANGED << r_changes, r_store, r_mem, r_fresh, r_failed, r_cp >>
    /\ UNCHANGED << r_file, r_last_tid, r_active, r_committed, r_flushed,
                    r_pc, r_arg, r_started, r_halt >>
    /\ UNCHANGED r_calls
    /\ r_again' = IF tid \in r_active THEN "no" ELSE r_again
    /\ UNCHANGED r_others

\* commit(tid): nothing when tid is not active; otherwise Commit(tid) is
\* staged and flush() runs ...
R_Commit(tid) ==
    /\ r_pc = "idle"
    /\ Len(r_file) + Len(r_mem) < MaxLog
    /\ IF tid \in r_active
          THEN /\ r_mem' = Append(r_mem, CommitE(tid))
               /\ r_pc' = "commit"
               /\ r_arg' = tid
               /\ r_fresh' = FALSE
               /\ r_failed' = 0
               /\ r_cp' = NoCp
          ELSE UNCHANGED << r_mem, r_pc, r_arg, r_fresh, r_failed, r_cp >>
    /\ UNCHANGED << r_file, r_last_tid, r_active, r_changes, r_committed,
                    r_store, r_flushed, r_started, r_halt >>
    /\ UNCHANGED r_calls
    /\ r_again' = IF tid \in r_active THEN "no" ELSE r_again
    /\ UNCHANGED r_others

\* The end of commit() without line 99: the tid stays in active_tids.
R_CommitStoreFlush_keeps_active(ok) ==
    /\ r_pc = "commit"
    /\ r_mem = <<>>
    /\ r_pc' = "idle"
    /\ IF ok
          THEN /\ r_flushed' = r_store
               /\ r_committed' = r_committed \cup {r_arg}
               /\ UNCHANGED << r_active, r_failed >>
          ELSE /\ r_flushed' \in {r_flushed, r_store}
               /\ r_failed' = r_arg
               /\ UNCHANGED << r_active, r_committed >>
    /\ UNCHANGED << r_file, r_mem, r_last_tid, r_changes, r_store, r_arg, r_fresh,
                    r_started, r_cp, r_halt >>
    /\ UNCHANGED r_calls
    /\ UNCHANGED r_again
    /\ UNCHANGED r_others

\* ... then store.flush()?, which makes the store's whole contents durable,
\* then the tid leaves active_tids and is marked committed in changes.  When
\* store.flush fails, commit returns the error before those two.
R_CommitStoreFlush(ok) ==
    /\ r_pc = "commit"
    /\ r_mem = <<>>
    /\ r_pc' = "idle"
    /\ IF ok
          THEN /\ r_flushed' = r_store
               /\ r_active' = r_active \ {r_arg}
               /\ r_committed' = r_committed \cup {r_arg}
               /\ UNCHANGED r_failed
          ELSE /\ r_flushed' \in {r_flushed, r_store}
               /\ r_failed' = r_arg
               /\ UNCHANGED << r_active, r_committed >>
    /\ UNCHANGED << r_file, r_mem, r_last_tid, r_changes, r_store, r_arg, r_fresh,
                    r_started, r_cp, r_halt >>
    /\ UNCHANGED r_calls
    /\ UNCHANGED r_again
    /\ UNCHANGED r_others

\* checkpoint(): Begin(active_tids) is staged and flush() runs ...
R_Checkpoint ==
    /\ r_pc = "idle"
    /\ Len(r_file) + Len(r_mem) <= MaxLog
    /\ r_mem' = Append(r_mem, BeginE(r_active))
    /\ r_pc' = "cp1"
    /\ r_fresh' = FALSE
    /\ r_failed' = 0
    /\ r_cp' = [st |-> "run", tids |-> r_started \ r_committed, calls |-> <<>>]
    /\ UNCHANGED << r_file, r_last_tid, r_active, r_changes, r_committed,
                    r_store, r_flushed, r_arg, r_started, r_halt >>
    /\ UNCHANGED r_calls
    /\ r_again' = "no"
    /\ UNCHANGED r_others

\* ... then store.flush_change(key, val)? for every pair of flush_changes(),
\* in the HashMap's order, each making one value durable, then End is staged.
\* n calls are made; when the n-th fails, checkpoint returns the error with
\* the pairs flushed so far durable (and the failed one durable or not).
R_CheckpointFlushChanges(ok) ==
    /\ r_pc = "cp1"
    /\ r_mem = <<>>
    /\ LET map == flush_changes(r_changes, r_committed)
           inmap == { k \in Keys : map[k] # Untouched } IN
       \E order \in Orders(inmap), n \in 0..Cardinality(inmap) :
          /\ ok => n = Cardinality(inmap)
          /\ ~ok => n >= 1
          /\ \E done \in { { order[i] : i \in 1..(IF ok THEN n ELSE n - 1) },
                           { order[i] : i \in 1..n } } :
                r_flushed' = [k \in Keys |-> IF k \in done THEN map[k] ELSE r_flushed[k]]
          /\ r_cp' = [st |-> IF ok THEN r_cp.st ELSE "err", tids |-> r_cp.tids,
                      calls |-> [i \in 1..n |-> << order[i], map[order[i]] >>]]
    /\ IF ok THEN r_mem' = << EndE >> /\ r_pc' = "cp2"
             ELSE r_mem' = r_mem /\ r_pc' = "idle"
    /\ UNCHANGED << r_file, r_last_tid, r_active, r_changes, r_committed,
                    r_store, r_arg, r_fresh, r_failed, r_started, r_halt >>
    /\ UNCHANGED r_calls
    /\ UNCHANGED r_again
    /\ UNCHANGED r_others

\* ... then flush() of End.
R_CheckpointDone ==
    /\ r_pc = "cp2"
    /\ r_mem = <<>>
    /\ r_pc' = "idle"
    /\ r_cp' = [r_cp EXCEPT !.st = "ok"]
    /\ UNCHANGED << r_file, r_mem, r_last_tid, r_active, r_changes, r_committed,
                    r_store, r_flushed, r_arg, r_fresh, r_failed, r_started, r_halt >>
    /\ UNCHANGED r_calls
    /\ UNCHANGED r_again
    /\ UNCHANGED r_others

\* The process ends: everything in memory is lost, the file and the store's
\* durable contents stay; the next run hands RedoLog::new a store holding
\* the durable contents only.
R_Crash ==
    /\ r_pc # "closed"
    /\ r_pc' = "closed"
    /\ r_mem' = <<>>
    /\ r_last_tid' = 0
    /\ r_active' = {}
    /\ r_changes' = <<>>
    /\ r_committed' = {}
    /\ r_store' = r_flushed
    /\ r_arg' = 0
    /\ r_fresh' = FALSE
    /\ r_started' = {}
    /\ r_cp' = NoCp
    /\ r_halt' = 0
    /\ UNCHANGED << r_file, r_flushed, r_failed >>
    /\ r_calls' = <<>>
    /\ r_again' = IF r_fresh THEN "fresh"
                  ELSE IF r_pc = "recover" THEN "recovery" ELSE "no"
    /\ UNCHANGED r_others

R_Next ==
    \/ \E ok \in BOOLEAN : R_Open(ok)
    \/ R_RecoverDone
    \/ R_FlushEntry
    \/ R_Start
    \/ \E tid \in 1..MaxTid, k \in Keys, v \in R_Values : R_Write(tid, k, v)
    \/ \E tid \in 1..MaxTid : R_Commit(tid)
    \/ \E ok \in BOOLEAN : R_CommitStoreFlush(ok)
    \/ R_Checkpoint
    \/ \E ok \in BOOLEAN : R_CheckpointFlushChanges(ok)
    \/ R_CheckpointDone
    \/ R_Crash

(***************************************************************************)
(* The undo engine with transaction ids and checkpoints: operations        *)
(***************************************************************************)
NoCheckpoint == [some |-> FALSE, tids |-> {}]

UC_Init ==
    /\ uc_file = <<>>
    /\ uc_mem = <<>>
    /\ uc_last_tid = 0
    /\ uc_active = {}
    /\ uc_cp = NoCheckpoint
    /\ uc_store = EmptyStore
    /\ uc_flushed = EmptyStore
    /\ uc_pc = "closed"
    /\ uc_arg = 0
    /\ uc_begin = 0
    /\ uc_halt = 0
    /\ uc_base = 0

\* The backward walk of the recovery: entries are read from the last one
\* backwards, i being the entry about to be read (0: none left).  The result
\* carries the two sets, the store after the undo of every Insert and Change
\* of a tid not seen finished, and last, the entry read last.
RECURSIVE undo_walk(_, _, _, _, _, _)
undo_walk(file, i, finished, unfinished, store, state) ==
    LET result(l) == [finished |-> finished, unfinished |-> unfinished, store |-> store,
                      last |-> IF file = <<>> THEN 0 ELSE l] IN
    IF i = 0 THEN result(1)
    ELSE LET e == file[i] IN
         CASE IsTxnEnd(e) ->
                undo_walk(file, i - 1, finished \cup {e.tid}, unfinished, store, state)
           [] e.type = "Start" ->
                IF state.tag = "Begin"
                   THEN IF state.tids \ {e.tid} = {} THEN result(i)
                        ELSE undo_walk(file, i - 1, finished, unfinished, store,
                                       [state EXCEPT !.tids = state.tids \ {e.tid}])
                   ELSE undo_walk(file, i - 1, finished, unfinished, store, state)
           [] e.type = "Insert" ->
                IF e.tid \notin finished
                   THEN undo_walk(file, i - 1, finished, unfinished \cup {e.tid},
                                  [store EXCEPT ![e.key] = NoVal], state)
                   ELSE undo_walk(file, i - 1, finished, unfinished, store, state)
           [] e.type = "Change" ->
                IF e.tid \notin finished
                   THEN undo_walk(file, i - 1, finished, unfinished \cup {e.tid},
                                  [store EXCEPT ![e.key] = e.val], state)
                   ELSE undo_walk(file, i - 1, finished, unfinished, store, state)
           [] e.type = "End" ->
                undo_walk(file, i - 1, finished, unfinished, store,
                          IF state.tag = "None" THEN [tag |-> "End", tids |-> {}] ELSE state)
           [] e.type = "Begin" ->
                IF state.tag = "End"
                   THEN IF e.tids = {} THEN result(i)
                        ELSE undo_walk(file, i - 1, finished, unfinished, store,
                                       [tag |-> "Begin", tids |-> e.tids])
                   ELSE undo_walk(file, i - 1, finished, unfinished, store, state)

\* open: the recovery up to its store.flush().  When the flush fails the
\* open fails; otherwise one Abort per unfinished tid is staged and last_tid
\* is the largest tid of the two sets; the appending of the Aborts is the
\* steps UC_FlushEntry, ended by UC_RecoverDone.
UC_Open(ok) ==
    /\ uc_pc = "closed"
    /\ \E w \in {undo_walk(uc_file, Len(uc_file), {}, {}, uc_store,
                            [tag |-> "None", tids |-> {}])} :
         IF ok
            THEN /\ uc_store' = w.store
                 /\ uc_flushed' = w.store
                 /\ \E order \in Orders(w.unfinished) :
                       uc_mem' = [i \in 1..Len(order) |-> AbortE(order[i])]
                 /\ uc_last_tid' = SetMax(w.finished \cup w.unfinished)
                 /\ uc_pc' = "recover"
                 /\ uc_halt' = w.last
            ELSE /\ uc_flushed' \in {uc_flushed, w.store}
                 /\ uc_store' = uc_flushed'
                 /\ UNCHANGED << uc_mem, uc_last_tid, uc_pc, uc_halt >>
    /\ uc_active' = {}
    /\ uc_cp' = NoCheckpoint
    /\ uc_begin' = 0
    /\ UNCHANGED << uc_file, uc_arg >>
    /\ uc_base' = Len(uc_file)
    /\ UNCHANGED uc_others

UC_RecoverDone ==
    /\ uc_pc = "recover"
    /\ uc_mem = <<>>
    /\ uc_pc' = "idle"
    /\ uc_halt' = 0
    /\ UNCHANGED << uc_file, uc_mem, uc_last_tid, uc_active, uc_cp, uc_store,
                    uc_flushed, uc_arg, uc_begin >>
    /\ UNCHANGED uc_base
    /\ UNCHANGED uc_others

\* flush(): the staged entries are appended front to back, one per step.
UC_FlushEntry ==
    /\ uc_pc \in {"recover", "commit1", "commit2", "cp"}
    /\ uc_mem # <<>>
    /\ uc_file' = Append(uc_file, Head(uc_mem))
    /\ uc_mem' = Tail(uc_mem)
    /\ UNCHANGED << uc_last_tid, uc_active, uc_cp, uc_store, uc_flushed, uc_pc,
                    uc_arg, uc_begin, uc_halt >>
    /\ UNCHANGED uc_base
    /\ UNCHANGED uc_others

\* start(): last_tid += 1, stages Start(last_tid), the tid becomes active.
UC_Start ==
    /\ uc_pc = "idle"
    /\ uc_last_tid < MaxTid
    /\ Len(uc_file) + Len(uc_mem) + 1 < MaxLog
    /\ uc_last_tid' = uc_last_tid + 1
    /\ uc_mem' = Append(uc_mem, StartE(uc_last_tid + 1))
    /\ uc_active' = uc_active \cup {uc_last_tid + 1}
    /\ UNCHANGED << uc_file, uc_cp, uc_store, uc_flushed, uc_pc, uc_arg,
                    uc_begin, uc_halt >>
    /\ UNCHANGED uc_base
    /\ UNCHANGED uc_others

\* write(tid, key, val): nothing when tid is not active; otherwise stages
\* Change{tid, key, old} when the store has the key and Insert{tid, key}
\* otherwise, and updates the store.
UC_Write(tid, k, v) ==
    /\ uc_pc = "idle"
    /\ Len(uc_file) + Len(uc_mem) + 1 < MaxLog
    /\ IF tid \in uc_active
          THEN /\ uc_mem' = Append(uc_mem, IF uc_store[k] # NoVal
                                              THEN ChangeE(tid, k, uc_store[k])
                                              ELSE InsertE(tid, k))
               /\ uc_store' = [uc_store EXCEPT ![k] = v]
          ELSE UNCHANGED << uc_mem, uc_store >>
    /\ UNCHANGED << uc_file, uc_last_tid, uc_active, uc_cp, uc_flushed, uc_pc,
                    uc_arg, uc_begin, uc_halt >>
    /\ UNCHANGED uc_base
    /\ UNCHANGED uc_others

\* commit(tid) of an active tid: flush(), the steps UC_FlushEntry ...
UC_Commit(tid) ==
    /\ uc_pc = "idle"
    /\ tid \in uc_active
    /\ uc_pc' = "commit1"
    /\ uc_arg' = tid
    /\ UNCHANGED << uc_file, uc_mem, uc_last_tid, uc_active, uc_cp, uc_store,
                    uc_flushed, uc_begin, uc_halt >>
    /\ UNCHANGED uc_base
    /\ UNCHANGED uc_others

\* The third step of commit with the test on the checkpoint's set dropped:
\* End is staged by every commit made while a checkpoint is in progress.
UC_CommitStoreFlush_any_commit(ok) ==
    /\ uc_pc = "commit1"
    /\ uc_mem = <<>>
    /\ IF ok
          THEN /\ uc_flushed' = uc_store
               /\ uc_active' = uc_active \ {uc_arg}
               /\ IF uc_cp.some
                     THEN /\ uc_mem' = << CommitE(uc_arg), EndE >>
                          /\ uc_cp' = NoCheckpoint
                     ELSE /\ uc_mem' = << CommitE(uc_arg) >>
                          /\ UNCHANGED uc_cp
               /\ uc_pc' = "commit2"
          ELSE /\ uc_flushed' \in {uc_flushed, uc_store}
               /\ uc_pc' = "idle"
               /\ UNCHANGED << uc_mem, uc_active, uc_cp >>
    /\ UNCHANGED << uc_file, uc_last_tid, uc_store, uc_arg, uc_begin, uc_halt >>
    /\ UNCHANGED uc_base
    /\ UNCHANGED uc_others

\* ... then store.flush(); when it fails commit returns the error.  Otherwise
\* Commit(tid) is staged and the tid leaves active_tids; when a checkpoint is
\* in progress and the tid was the last active one of its set, End is staged
\* too and checkpoint_tids is cleared.
UC_CommitStoreFlush(ok) ==
    /\ uc_pc = "commit1"
    /\ uc_mem = <<>>
    /\ IF ok
          THEN /\ uc_flushed' = uc_store
               /\ uc_active' = uc_active \ {uc_arg}
               /\ IF /\ uc_cp.some
                     /\ uc_arg \in uc_cp.tids
                     /\ uc_cp.tids \cap (uc_active \ {uc_arg}) = {}
                     THEN /\ uc_mem' = << CommitE(uc_arg), EndE >>
                          /\ uc_cp' = NoCheckpoint
                     ELSE /\ uc_mem' = << CommitE(uc_arg) >>
                          /\ UNCHANGED uc_cp
               /\ uc_pc' = "commit2"
          ELSE /\ uc_flushed' \in {uc_flushed, uc_store}
               /\ uc_pc' = "idle"
               /\ UNCHANGED << uc_mem, uc_active, uc_cp >>
    /\ UNCHANGED << uc_file, uc_last_tid, uc_store, uc_arg, uc_begin, uc_halt >>
    /\ UNCHANGED uc_base
    /\ UNCHANGED uc_others

\* ... then flush() again.
UC_CommitDone ==
    /\ uc_pc = "commit2"
    /\ uc_mem = <<>>
    /\ uc_pc' = "idle"
    /\ UNCHANGED << uc_file, uc_mem, uc_last_tid, uc_active, uc_cp, uc_store,
                    uc_flushed, uc_arg, uc_begin, uc_halt >>
    /\ UNCHANGED uc_base
    /\ UNCHANGED uc_others

\* checkpoint() without its test: Begin is staged and flushed also while a
\* checkpoint is in progress.
UC_Checkpoint_always_begins ==
    /\ uc_pc = "idle"
    /\ Len(uc_file) + Len(uc_mem) < MaxLog
    /\ uc_mem' = Append(uc_mem, BeginE(uc_active))
    /\ uc_pc' = "cp"
    /\ UNCHANGED << uc_file, uc_last_tid, uc_active, uc_cp, uc_store, uc_flushed,
                    uc_arg, uc_begin, uc_halt >>
    /\ UNCHANGED uc_base
    /\ UNCHANGED uc_others

\* checkpoint(): nothing while a checkpoint is in progress; otherwise
\* Begin(active_tids) is staged and flush() runs ...
UC_Checkpoint ==
    /\ uc_pc = "idle"
    /\ Len(uc_file) + Len(uc_mem) < MaxLog
    /\ IF uc_cp.some
          THEN UNCHANGED << uc_mem, uc_pc >>
          ELSE /\ uc_mem' = Append(uc_mem, BeginE(uc_active))
               /\ uc_pc' = "cp"
    /\ UNCHANGED << uc_file, uc_last_tid, uc_active, uc_cp, uc_store, uc_flushed,
                    uc_arg, uc_begin, uc_halt >>
    /\ UNCHANGED uc_base
    /\ UNCHANGED uc_others

\* ... and the tids are remembered.
UC_CheckpointDone ==
    /\ uc_pc = "cp"
    /\ uc_mem = <<>>
    /\ uc_cp' = [some |-> TRUE, tids |-> uc_active]
    /\ uc_begin' = Len(uc_file)
    /\ uc_pc' = "idle"
    /\ UNCHANGED << uc_file, uc_mem, uc_last_tid, uc_active, uc_store, uc_flushed,
                    uc_arg, uc_halt >>
    /\ UNCHANGED uc_base
    /\ UNCHANGED uc_others

\* The process ends: everything in memory is lost, the file and the store's
\* durable contents stay.
UC_Crash ==
    /\ uc_pc # "closed"
    /\ uc_pc' = "closed"
    /\ uc_mem' = <<>>
    /\ uc_last_tid' = 0
    /\ uc_active' = {}
    /\ uc_cp' = NoCheckpoint
    /\ uc_store' = uc_flushed
    /\ uc_arg' = 0
    /\ uc_begin' = 0
    /\ uc_halt' = 0
    /\ UNCHANGED << uc_file, uc_flushed >>
    /\ uc_base' = 0
    /\ UNCHANGED uc_others

UC_Next ==
    \/ \E ok \in BOOLEAN : UC_Open(ok)
    \/ UC_RecoverDone
    \/ UC_FlushEntry
    \/ UC_Start
    \/ \E tid \in 1..MaxTid, k \in Keys, v \in R_Values : UC_Write(tid, k, v)
    \/ \E tid \in 1..MaxTid : UC_Commit(tid)
    \/ \E ok \in BOOLEAN : UC_CommitStoreFlush(ok)
    \/ UC_CommitDone
    \/ UC_Checkpoint
    \/ UC_CheckpointDone
    \/ UC_Crash

(***************************************************************************)
(* Appending records to a file and iterating over it                       *)
(***************************************************************************)
\* Bounds: entries appended to the file, calls made on one iterator.
MaxEntries == 3
MaxCalls == 4

\* What is appended: the records split_bytes_into_records makes of n bytes
\* with chunk size c, as << n, c >>.  No bytes (one Zero record); 1, 2 and 3
\* bytes in records of one byte; three records of a third of a block (less
\* the header), which leave two bytes of the block unused; eight records of
\* a quarter of a block, which fill two blocks; two records of a whole block.
EntryShapes ==
    { << 0, 1 >>, << 1, 1 >>, << 2, 1 >>, << 3, 1 >>,
      << 3 * (BLOCK_SIZE \div 3 - HEADER_SIZE), BLOCK_SIZE \div 3 - HEADER_SIZE >>,
      << 8 * (BLOCK_SIZE \div 4 - HEADER_SIZE), BLOCK_SIZE \div 4 - HEADER_SIZE >>,
      << 2 * (BLOCK_SIZE - HEADER_SIZE), BLOCK_SIZE - HEADER_SIZE >> }

\* split_bytes_into_records(bytes, max_record_size) for n bytes: kinds and
\* payload sizes of the records (ent and frag tell which entry the record is
\* a fragment of, and which one).
split_records(n, max_record_size, ent) ==
    LET c == (n + max_record_size - 1) \div max_record_size IN
    IF c = 0 THEN << [kind |-> "Zero", size |-> 0, ent |-> ent, frag |-> 1, off |-> 0] >>
    ELSE [ i \in 1..c |->
            [ kind |-> IF c = 1 THEN "Full"
                       ELSE IF i = 1 THEN "First"
                       ELSE IF i = c THEN "Last" ELSE "Middle",
              size |-> IF i < c THEN max_record_size ELSE n - (c - 1) * max_record_size,
              ent |-> ent, frag |-> i, off |-> 0 ] ]

NumEntries(file) == IF file = <<>> THEN 0 ELSE file[Len(file)].ent

\* WalIterator::new.
NewIterator(file_len) ==
    [open |-> TRUE, file_len |-> file_len, has_pos |-> FALSE, pos |-> 0,
     has_block |-> FALSE, block |-> <<>>, has_index |-> FALSE, block_index |-> 0]

NoIterator == [NewIterator(0) EXCEPT !.open = FALSE]

get_pos(it, default) ==
    IF it.has_pos THEN it ELSE [it EXCEPT !.has_pos = TRUE, !.pos = default]

\* load_block: res is "ok" for Ok(false), "out_of_bounds" for Ok(true) and
\* "err" for the Err of fetch_block.  With a block index, the block before
\* is fetched when the index is below 0 and the block after when it is past
\* the block's end, both tested with check_forward_bounds; pos was taken and
\* is put back only when the block was fetched.  Without one, the block at
\* position is fetched, tested with the bounds of the direction.
load_block(it, lay, position, forward) ==
    LET moved(pos, to_last) ==
            LET taken == [it EXCEPT !.has_pos = FALSE]
                block == fetch_block(lay, pos) IN
            IF check_forward_bounds(pos, it.file_len)
               THEN [it |-> taken, res |-> "out_of_bounds"]
            ELSE IF block = <<>> THEN [it |-> taken, res |-> "err"]
            ELSE [it |-> [it EXCEPT !.pos = pos, !.block = block,
                                    !.block_index = IF to_last THEN Len(block) - 1 ELSE 0],
                  res |-> "ok"]
    IN
    IF it.has_index
       THEN IF it.block_index < 0
               THEN IF it.has_pos THEN moved(it.pos - BLOCK_SIZE, TRUE)
                    ELSE [it |-> it, res |-> "ok"]
            ELSE IF it.block_index >= Len(it.block)
               THEN IF it.has_pos THEN moved(it.pos + BLOCK_SIZE, FALSE)
                    ELSE [it |-> it, res |-> "ok"]
            ELSE [it |-> it, res |-> "ok"]
       ELSE LET out_of_bounds == IF forward THEN check_forward_bounds(position, it.file_len)
                                            ELSE check_backward_bounds(position, it.file_len)
                block == fetch_block(lay, position) IN
            IF out_of_bounds THEN [it |-> it, res |-> "out_of_bounds"]
            ELSE IF block = <<>> THEN [it |-> it, res |-> "err"]
            ELSE [it |-> [it EXCEPT !.has_block = TRUE, !.block = block,
                                    !.has_index = TRUE,
                                    !.block_index = IF forward THEN 0 ELSE Len(block) - 1],
                  res |-> "ok"]

\* The end of next() and next_back(): the record at block_index is returned
\* and block_index moves by step.  res is the record (its index in the
\* file's layout), 0 for None, -1 for a panic (the unwrap of load_block's
\* Err, or of block.get() outside the block).
yield_record(lb, step) ==
    CASE lb.res = "err" -> [it |-> lb.it, res |-> -1]
      [] lb.res = "out_of_bounds" -> [it |-> lb.it, res |-> 0]
      [] OTHER ->
           IF ~lb.it.has_index THEN [it |-> lb.it, res |-> 0]
           ELSE IF lb.it.block_index < 0 \/ lb.it.block_index >= Len(lb.it.block)
              THEN [it |-> lb.it, res |-> -1]
           ELSE [it |-> [lb.it EXCEPT !.block_index = @ + step],
                 res |-> lb.it.block[lb.it.block_index + 1]]

WalIterator_next(it, lay) ==
    LET it1 == get_pos(it, 0) IN
    yield_record(load_block(it1, lay, it1.pos, TRUE), 1)

WalIterator_next_back(it, lay) ==
    LET it1 == get_pos(it, it.file_len - BLOCK_SIZE) IN
    yield_record(load_block(it1, lay, it1.pos, FALSE), -1)

\* A fresh iterator walked to its end in one direction: the records yielded
\* until the first None; a trailing 0 stands for a panic.
RECURSIVE walk(_, _, _)
walk(it, lay, forward) ==
    LET r == IF forward THEN WalIterator_next(it, lay) ELSE WalIterator_next_back(it, lay) IN
    IF r.res = 0 THEN <<>>
    ELSE IF r.res = -1 THEN <<0>>
    ELSE <<r.res>> \o walk(r.it, lay, forward)

\* read_serializable started at stream[p] in state None with an empty
\* buffer.  A Zero or Full record is deserialized alone.  A First record
\* moves to state First and every following Middle record to state Middle; q
\* is the first position after p that holds no Middle record, where the loop
\* ends: on the end of the stream (Err), on the iterator's panic, on a Last
\* record (deserialized with the buffer when the state is Middle, Err in
\* state First), on a Zero or Full record (deserialized alone) or on a second
\* First record (Err).  Middle and Last records are Err in state None.
read_serializable(lay, stream, p) ==
    IF p > Len(stream) THEN [res |-> "err", ent |-> 0, next |-> p]
    ELSE IF stream[p] = 0 THEN [res |-> "panic", ent |-> 0, next |-> p]
    ELSE LET kind == lay[stream[p]].kind IN
         CASE kind \in {"Zero", "Full"} -> Deserialize(lay, <<stream[p]>>, p + 1)
           [] kind \in {"Middle", "Last"} -> [res |-> "err", ent |-> 0, next |-> p + 1]
           [] kind = "First" ->
                LET IsMiddle(j) == j <= Len(stream) /\ stream[j] # 0
                                     /\ lay[stream[j]].kind = "Middle"
                    q == CHOOSE j \in (p + 1)..(Len(stream) + 1) :
                            /\ ~IsMiddle(j)
                            /\ \A m \in (p + 1)..(j - 1) : IsMiddle(m)
                    state == IF q = p + 1 THEN "First" ELSE "Middle"
                IN
                IF q > Len(stream) THEN [res |-> "err", ent |-> 0, next |-> q]
                ELSE IF stream[q] = 0 THEN [res |-> "panic", ent |-> 0, next |-> q]
                ELSE CASE lay[stream[q]].kind \in {"Zero", "Full"} ->
                            Deserialize(lay, <<stream[q]>>, q + 1)
                       [] lay[stream[q]].kind = "First" ->
                            [res |-> "err", ent |-> 0, next |-> q + 1]
                       [] lay[stream[q]].kind = "Last" ->
                            IF state # "Middle" THEN [res |-> "err", ent |-> 0, next |-> q + 1]
                            ELSE Deserialize(lay, [i \in 1..(q - p + 1) |-> stream[q + 1 - i]],
                                             q + 1)

NotDone == [done |-> FALSE, fwd |-> <<>>, bwd |-> <<>>]
NotRead == [done |-> FALSE, fwd |-> [res |-> "err", ent |-> 0, next |-> 0],
            bwd |-> [res |-> "err", ent |-> 0, next |-> 0]]

W_Init ==
    /\ w_file = <<>>
    /\ w_it = NoIterator
    /\ w_calls = <<>>
    /\ w_walk = NotDone
    /\ w_read = NotRead

\* The records of n bytes split with chunk size c are appended one after the
\* other with Writer::append.
W_Append(n, c) ==
    /\ ~w_it.open
    /\ NumEntries(w_file) < MaxEntries
    /\ w_file' = w_file \o LayoutRecords(split_records(n, c, NumEntries(w_file) + 1),
                                         1, FileLen(w_file))
    /\ w_walk' = NotDone
    /\ w_read' = NotRead
    /\ UNCHANGED << w_it, w_calls >>
    /\ UNCHANGED w_others

W_NewIterator ==
    /\ ~w_it.open
    /\ w_it' = NewIterator(FileLen(w_file))
    /\ w_calls' = <<>>
    /\ UNCHANGED << w_file, w_walk, w_read >>
    /\ UNCHANGED w_others

\* The iterator is dropped (also by the unwinding of a panic).
W_Drop ==
    /\ w_it.open
    /\ w_it' = NoIterator
    /\ w_calls' = <<>>
    /\ UNCHANGED << w_file, w_walk, w_read >>
    /\ UNCHANGED w_others

CanCall ==
    /\ w_it.open
    /\ Len(w_calls) < MaxCalls
    /\ (w_calls # <<>> => w_calls[Len(w_calls)].res # -1)

W_Next ==
    /\ CanCall
    /\ \E r \in {WalIterator_next(w_it, w_file)} :
          /\ w_it' = r.it
          /\ w_calls' = Append(w_calls, [op |-> "next", res |-> r.res])
    /\ UNCHANGED << w_file, w_walk, w_read >>
    /\ UNCHANGED w_others

W_NextBack ==
    /\ CanCall
    /\ \E r \in {WalIterator_next_back(w_it, w_file)} :
          /\ w_it' = r.it
          /\ w_calls' = Append(w_calls, [op |-> "next_back", res |-> r.res])
    /\ UNCHANGED << w_file, w_walk, w_read >>
    /\ UNCHANGED w_others

\* Two fresh iterators, one walked with next(), one with next_back().
W_Walk ==
    /\ ~w_it.open
    /\ ~w_walk.done
    /\ w_walk' = [done |-> TRUE,
                  fwd |-> walk(NewIterator(FileLen(w_file)), w_file, TRUE),
                  bwd |-> walk(NewIterator(FileLen(w_file)), w_file, FALSE)]
    /\ UNCHANGED << w_file, w_it, w_calls, w_read >>
    /\ UNCHANGED w_others

\* read_serializable on a fresh iterator, read_serializable_backwards on
\* another.
W_Read ==
    /\ ~w_it.open
    /\ ~w_read.done
    /\ w_read' = [done |-> TRUE,
                  fwd |-> read_serializable(w_file,
                              walk(NewIterator(FileLen(w_file)), w_file, TRUE), 1),
                  bwd |-> read_serializable_backwards(w_file,
                              walk(NewIterator(FileLen(w_file)), w_file, FALSE), 1)]
    /\ UNCHANGED << w_file, w_it, w_calls, w_walk >>
    /\ UNCHANGED w_others

W_Ops ==
    \/ \E shape \in EntryShapes : W_Append(shape[1], shape[2])
    \/ W_NewIterator
    \/ W_Drop
    \/ W_Next
    \/ W_NextBack
    \/ W_Walk
    \/ W_Read

(***************************************************************************)
(* split_bytes_into_records on byte vectors (mod.rs)                       *)
(***************************************************************************)
\* Bounds: length of the byte vector, chunk size.
MaxBytes == 5
MaxChunk == 3

SampleBytes == {0, 123}

ByteVectors == UNION { [1..n -> SampleBytes] : n \in 0..MaxBytes }

\* bytes.chunks(max_record_size): chunk i of the vector.
Chunk(bytes, max_record_size, i) ==
    LET end == IF i * max_record_size <= Len(bytes) THEN i * max_record_size
               ELSE Len(bytes) IN
    SubSeq(bytes, (i - 1) * max_record_size + 1, end)

NumChunksOf(bytes, max_record_size) ==
    (Len(bytes) + max_record_size - 1) \div max_record_size

NewRecord(record_type, payload) ==
    [crc |-> 0, size |-> Len(payload) % 65536, record_type |-> record_type,
     payload |-> payload]

\* The split that leaves the last of several records a Middle record.
split_bytes_last_middle(bytes, max_record_size) ==
    LET n == NumChunksOf(bytes, max_record_size) IN
    IF n = 0 THEN << NewRecord("Zero", <<>>) >>
    ELSE [ i \in 1..n |->
            NewRecord(IF n = 1 THEN "Full" ELSE IF i = 1 THEN "First" ELSE "Middle",
                      Chunk(bytes, max_record_size, i)) ]

\* split_bytes_into_records(bytes, max_record_size): one Middle record per
\* chunk; a single record becomes Full; of several the first becomes First
\* and the last Last; no record at all gives one Zero record.
split_bytes(bytes, max_record_size) ==
    LET n == NumChunksOf(bytes, max_record_size) IN
    IF n = 0 THEN << NewRecord("Zero", <<>>) >>
    ELSE [ i \in 1..n |->
            NewRecord(IF n = 1 THEN "Full"
                      ELSE IF i = 1 THEN "First"
                      ELSE IF i = n THEN "Last" ELSE "Middle",
                      Chunk(bytes, max_record_size, i)) ]

S_Init ==
    /\ s_bytes = <<>>
    /\ s_size = 1
    /\ s_records = <<>>
    /\ s_done = FALSE

\* Any byte vector and chunk size within the bounds.
S_Inputs ==
    /\ s_bytes \in ByteVectors
    /\ s_size \in 1..MaxChunk
    /\ s_records = <<>>
    /\ s_done = FALSE

S_Split ==
    /\ ~s_done
    /\ s_records' = split_bytes(s_bytes, s_size)
    /\ s_done' = TRUE
    /\ UNCHANGED << s_bytes, s_size >>
    /\ UNCHANGED s_others

S_Ops == S_Split

(***************************************************************************)
(* Record::write and Record::read on bytes (record.rs)                     *)
(***************************************************************************)
\* Bound: length of a record's payload.
MaxPayload == 2

RecordTypes == {"Zero", "Full", "First", "Middle", "Last"}

\* enum RecordType as u8.
RecordTypeByte(record_type) ==
    CASE record_type = "Zero" -> 1
      [] record_type = "Full" -> 2
      [] record_type = "First" -> 3
      [] record_type = "Middle" -> 4
      [] record_type = "Last" -> 5

\* RecordType::from_u8: "None" outside Zero..Last.
from_u8(i) ==
    IF i >= 1 /\ i <= 5
       THEN CHOOSE record_type \in RecordTypes : RecordTypeByte(record_type) = i
       ELSE "None"

\* The four bytes of x with the least significant first.
LittleEndian32(x) == << x % 256, (x \div 256) % 256, (x \div 65536) % 256, (x \div 16777216) % 256 >>

\* write_u32::<BigEndian> and write_u16::<BigEndian>.
BigEndian32(x) == << (x \div 16777216) % 256, (x \div 65536) % 256, (x \div 256) % 256, x % 256 >>
BigEndian16(x) == << (x \div 256) % 256, x % 256 >>

\* Record::write: record type, crc, size, then the payload.
Record_write(record) ==
    << RecordTypeByte(record.record_type) >> \o BigEndian32(record.crc)
        \o BigEndian16(record.size) \o record.payload

NoRecord == [crc |-> 0, size |-> 0, record_type |-> "None", payload |-> <<>>]

ReadErr == [ok |-> FALSE, record |-> NoRecord, consumed |-> 0]

\* Record::read: Err when fewer than 7 bytes are left, when the first byte
\* is no record type, or when fewer than size bytes follow the header; the
\* crc is decoded and returned, and compared with nothing.  consumed is the
\* number of bytes the two read_exact calls of a successful read took from
\* the reader.
Record_read(bytes) ==
    IF Len(bytes) < HEADER_SIZE THEN ReadErr
    ELSE IF from_u8(bytes[1]) = "None" THEN ReadErr
    ELSE LET crc == ((bytes[2] * 256 + bytes[3]) * 256 + bytes[4]) * 256 + bytes[5]
             size == bytes[6] * 256 + bytes[7] IN
         IF Len(bytes) < HEADER_SIZE + size THEN ReadErr
         ELSE [ok |-> TRUE,
               record |-> [crc |-> crc, size |-> size, record_type |-> from_u8(bytes[1]),
                           payload |-> SubSeq(bytes, HEADER_SIZE + 1, HEADER_SIZE + size)],
               consumed |-> HEADER_SIZE + size]

\* The crc values of the records the tests build.
SampleCrcs == {0, 123456789}

B_Init ==
    /\ b_record = [crc |-> 0, size |-> 0, record_type |-> "Zero", payload |-> <<>>]
    /\ b_bytes = <<>>
    /\ b_changed = 0
    /\ b_pc = "new"
    /\ b_result = ReadErr

\* Any record within the bounds, its size that of its payload.
B_Inputs ==
    /\ b_record \in { [crc |-> crc, size |-> Len(payload), record_type |-> record_type,
                        payload |-> payload] :
                          crc \in SampleCrcs, record_type \in RecordTypes,
                          payload \in UNION { [1..n -> SampleBytes] : n \in 0..MaxPayload } }
    /\ b_bytes = <<>>
    /\ b_changed = 0
    /\ b_pc = "new"
    /\ b_result = ReadErr

B_Write ==
    /\ b_pc = "new"
    /\ b_bytes' = Record_write(b_record)
    /\ b_pc' = "written"
    /\ UNCHANGED << b_record, b_changed, b_result >>
    /\ UNCHANGED b_others

\* The record is written to the buffer a second time, behind the first.
B_WriteAgain ==
    /\ b_pc = "written"
    /\ b_changed = 0
    /\ Len(b_bytes) = HEADER_SIZE + Len(b_record.payload)
    /\ b_bytes' = b_bytes \o Record_write(b_record)
    /\ UNCHANGED << b_record, b_changed, b_pc, b_result >>
    /\ UNCHANGED b_others

\* One byte of the buffer is given another value (bytes[i] = v).
B_Change(i, v) ==
    /\ b_pc = "written"
    /\ b_changed = 0
    /\ i \in 1..Len(b_bytes)
    /\ v # b_bytes[i]
    /\ b_bytes' = [b_bytes EXCEPT ![i] = v]
    /\ b_changed' = i
    /\ UNCHANGED << b_record, b_pc, b_result >>
    /\ UNCHANGED b_others

B_Read ==
    /\ b_pc = "written"
    /\ b_result' = Record_read(b_bytes)
    /\ b_pc' = "read"
    /\ UNCHANGED << b_record, b_bytes, b_changed >>
    /\ UNCHANGED b_others

B_Ops ==
    \/ B_Write
    \/ B_WriteAgain
    \/ \E i \in 1..(HEADER_SIZE + MaxPayload), v \in SampleBytes \cup {1} : B_Change(i, v)
    \/ B_Read

(***************************************************************************)
(* The two readers on any sequence of records (mod.rs)                     *)
(***************************************************************************)
\* Bound: number of records the iterator yields.
MaxStream == 3

\* The records the iterator can yield: the three fragments of one entry, an
\* entry in one Full record, and the two fragments of a third entry.
RecordPool == split_records(3, 1, 1) \o split_records(1, 1, 2) \o split_records(2, 1, 3)

Streams == UNION { [1..n -> DOMAIN RecordPool] : n \in 1..MaxStream }

NoResult == [res |-> "err", ent |-> 0, next |-> 0]

G_Init ==
    /\ g_stream = <<>>
    /\ g_fwd = NoResult
    /\ g_bwd = NoResult
    /\ g_done = FALSE

\* Any sequence of pool records within the bound.
G_Inputs ==
    /\ g_stream \in Streams
    /\ g_fwd = NoResult
    /\ g_bwd = NoResult
    /\ g_done = FALSE

\* One call of each reader on an iterator that yields g_stream.
G_Read ==
    /\ ~g_done
    /\ g_fwd' = read_serializable(RecordPool, g_stream, 1)
    /\ g_bwd' = read_serializable_backwards(RecordPool, g_stream, 1)
    /\ g_done' = TRUE
    /\ UNCHANGED g_stream
    /\ UNCHANGED g_others

G_Ops == G_Read

(***************************************************************************)
(* The engines are separate programs on separate files: each               *)
(* specification runs one of them and leaves the others' state alone.      *)
(***************************************************************************)
Init == U_Init /\ R_Init /\ UC_Init /\ W_Init /\ S_Init /\ B_Init /\ G_Init

\* split_bytes_into_records applied to every input within the bounds.
SplitInit == U_Init /\ R_Init /\ UC_Init /\ W_Init /\ S_Inputs /\ B_Init /\ G_Init

\* Every record within the bounds written and read back.
RecordInit == U_Init /\ R_Init /\ UC_Init /\ W_Init /\ S_Init /\ B_Inputs /\ G_Init

\* The readers applied to every sequence of records within the bound.
ReaderInit == U_Init /\ R_Init /\ UC_Init /\ W_Init /\ S_Init /\ B_Init /\ G_Inputs

SpecUndo == Init /\ [][U_Next]_vars
SpecRedo == Init /\ [][R_Next]_vars
SpecUndoCheckpoint == Init /\ [][UC_Next]_vars
SpecFile == Init /\ [][W_Ops]_vars
SpecSplit == SplitInit /\ [][S_Ops]_vars
SpecRecord == RecordInit /\ [][B_Ops]_vars
SpecReader == ReaderInit /\ [][G_Ops]_vars

(***************************************************************************)
(* Properties of the redo engine                                           *)
(***************************************************************************)
\* Position of the last entry of the file that satisfies P (0: none).
LastPos(file, P(_)) ==
    LET idx == { i \in DOMAIN file : P(file[i]) } IN
    IF idx = {} THEN 0 ELSE CHOOSE i \in idx : \A j \in idx : j <= i

LastChangePos(file, k) ==
    LET IsIt(e) == e.type = "Change" /\ e.key = k IN LastPos(file, IsIt)

LastStartPos(file, t) ==
    LET IsIt(e) == e.type = "Start" /\ e.tid = t IN LastPos(file, IsIt)

\* The value of the last Change of k, in file order, among the tids whose
\* Commit is on disk (NoVal: there is none).
LastCommittedValue(file, k) ==
    LET IsIt(e) == e.type = "Change" /\ e.key = k /\ OnDisk(file, "Commit", e.tid)
        p == LastPos(file, IsIt) IN
    IF p = 0 THEN NoVal ELSE file[p].val

\* C3 as stated: when commit(t) returned the error of store.flush(), no
\* Commit(t) is on disk, and after the next open Abort(t) is on disk.
C3_FailedCommitLeavesNoCommit ==
    r_failed # 0 =>
       /\ ~OnDisk(r_file, "Commit", r_failed)
       /\ r_fresh => OnDisk(r_file, "Abort", r_failed)

\* C3, corrected: when commit(t) returned the error of store.flush(),
\* Commit(t) is on disk (it is flushed before store.flush runs); the next
\* open stages no Abort(t), and once it has returned, every key whose last
\* Change on disk is one of t, after t's Start, holds that value in the store
\* and durably: t is redone.
C3_FailedCommitIsRedone ==
    r_failed # 0 =>
       /\ OnDisk(r_file, "Commit", r_failed)
       /\ r_pc = "recover" => \A i \in DOMAIN r_mem : r_mem[i].tid # r_failed
       /\ r_fresh =>
             \A k \in Keys :
                LET p == LastChangePos(r_file, k) IN
                (p # 0 /\ r_file[p].tid = r_failed /\ p > LastStartPos(r_file, r_failed))
                   => (r_store[k] = r_file[p].val /\ r_flushed[k] = r_file[p].val)

\* A failed commit, a crash and a reopening, with a key whose last Change is
\* the failed transaction's.
C3_Witness ==
    /\ r_fresh
    /\ r_failed # 0
    /\ \E k \in Keys :
          LET p == LastChangePos(r_file, k) IN
          p # 0 /\ r_file[p].tid = r_failed /\ p > LastStartPos(r_file, r_failed)

\* C7: once RedoLog::new has returned on a log that holds a Commit, the
\* durable store maps every key to the value of the last Change, in log
\* order, among the transactions whose Commit is on disk.
C7_DurableStoreIsCommittedState ==
    (r_fresh /\ \E i \in DOMAIN r_file : r_file[i].type = "Commit") =>
       \A k \in Keys : r_flushed[k] = LastCommittedValue(r_file, k)

\* C8: in every reachable state, every value of the durable store is the
\* value of a Change on disk of a transaction whose Commit is on disk.
C8_DurableValuesAreCommitted ==
    \A k \in Keys :
       r_flushed[k] # NoVal =>
          \E i \in DOMAIN r_file :
             /\ r_file[i].type = "Change" /\ r_file[i].key = k
             /\ r_file[i].val = r_flushed[k]
             /\ OnDisk(r_file, "Commit", r_file[i].tid)

\* C9: the Aborts RedoLog::new stages are one each for tids with neither a
\* Commit nor an Abort on disk, and once it has returned every tid with a
\* Change on disk has a Commit or an Abort on disk.
C9_OneAbortPerUncommitted ==
    /\ r_pc = "recover" =>
          \A i \in DOMAIN r_mem :
             /\ r_mem[i].type = "Abort"
             /\ ~OnDisk(r_file, "Commit", r_mem[i].tid)
             /\ ~OnDisk(r_file, "Abort", r_mem[i].tid)
             /\ \A j \in DOMAIN r_mem : r_mem[j].tid = r_mem[i].tid => j = i
    /\ r_fresh =>
          \A t \in TidsOnDisk(r_file) :
             OnDisk(r_file, "Change", t) =>
                (OnDisk(r_file, "Commit", t) \/ OnDisk(r_file, "Abort", t))

\* C10: once RedoLog::new has returned, the tid the first start() returns
\* (last_tid + 1) is greater than every tid in a record on disk.
C10_FirstTidIsNew ==
    r_fresh =>
       \A i \in DOMAIN r_file :
          /\ r_file[i].type \notin {"Begin", "End"} => r_file[i].tid < r_last_tid + 1
          /\ \A t \in r_file[i].tids : t < r_last_tid + 1

(***************************************************************************)
(* Checkpoints of the redo engine                                          *)
(***************************************************************************)
LastEndPos(file) ==
    LET IsIt(e) == e.type = "End" IN LastPos(file, IsIt)

\* Position of the last Begin before position p (0: none).
BeginBefore(file, p) ==
    LET idx == { i \in DOMAIN file : i < p /\ file[i].type = "Begin" } IN
    IF idx = {} THEN 0 ELSE CHOOSE i \in idx : \A j \in idx : j <= i

\* Position of the last Start(t) before position p (0: none).
StartBefore(file, t, p) ==
    LET idx == { i \in DOMAIN file : i < p /\ file[i].type = "Start" /\ file[i].tid = t } IN
    IF idx = {} THEN 0 ELSE CHOOSE i \in idx : \A j \in idx : j <= i

\* Where the claim lets the pass stop: at the Begin of the most recent End
\* when its set is empty, otherwise at the earliest of the Starts of the tids
\* of the set.
WindowStart(file) ==
    LET b == BeginBefore(file, LastEndPos(file))
        starts == { StartBefore(file, t, b) : t \in file[b].tids } IN
    IF file[b].tids = {} THEN b
    ELSE CHOOSE p \in starts : \A q \in starts : p <= q

HasCheckpoint(file) == LastEndPos(file) # 0 /\ BeginBefore(file, LastEndPos(file)) # 0

UndoPassStopsAtWindowStart ==
    (uc_pc = "recover" /\ HasCheckpoint(uc_file)) => uc_halt = WindowStart(uc_file)

\* C12: every End on disk directly follows a Begin; and when checkpoint() has
\* returned Ok, the last two entries on disk are Begin(A) and End, A being
\* the tids started and not committed when it was called, and nothing is
\* left staged.
C12_BeginThenEndOnDisk ==
    /\ \A i \in DOMAIN r_file :
          r_file[i].type = "End" => (i > 1 /\ r_file[i - 1].type = "Begin")
    /\ r_cp.st = "ok" =>
          /\ r_mem = <<>>
          /\ Len(r_file) >= 2
          /\ r_file[Len(r_file)] = EndE
          /\ r_file[Len(r_file) - 1] = BeginE(r_cp.tids)

\* checkpoint() has returned Ok with one transaction committed and another
\* started and not committed.
C12_Witness ==
    /\ r_cp.st = "ok"
    /\ r_cp.tids # {}
    /\ r_committed # {}

(***************************************************************************)
(* Checkpoints of the undo engine                                          *)
(***************************************************************************)
CommitAt(file, j, S) == file[j].type = "Commit" /\ file[j].tid \in S

AllRecords(file) == [i \in 1..Len(file) |-> i]

\* C14: records are appended in order behind the earlier ones, and a forward
\* walk over the file yields every appended record, oldest first.
C14_AppendOnlyInOrder ==
    /\ \A i \in 1..(Len(w_file) - 1) :
          w_file[i].off + HEADER_SIZE + w_file[i].size <= w_file[i + 1].off
    /\ (w_walk.done => w_walk.fwd = AllRecords(w_file))

\* C15: no record straddles a block boundary: a record whose header and
\* payload do not fit in what is left of the current block starts at the next
\* block boundary, after zero padding, and any other record starts where the
\* record before it ends.
RecordEnd(r) == r.off + HEADER_SIZE + r.size
PrevEnd(file, i) == IF i = 1 THEN 0 ELSE RecordEnd(file[i - 1])
C15_NoRecordStraddlesBlock ==
    \A i \in 1..Len(w_file) :
        LET used == PrevEnd(w_file, i) % BLOCK_SIZE
            total == HEADER_SIZE + w_file[i].size IN
        /\ w_file[i].off \div BLOCK_SIZE = (w_file[i].off + total - 1) \div BLOCK_SIZE
        /\ w_file[i].off = IF used + total > BLOCK_SIZE
                              THEN PrevEnd(w_file, i) + (BLOCK_SIZE - used)
                              ELSE PrevEnd(w_file, i)

\* C16: an iterator walked in one direction yields exactly the records that
\* were appended, in append order going forward and in reverse append order
\* going backward, also when the file is shorter than a block or its last
\* block is not full.
C16_WalkYieldsAppendedRecords ==
    w_walk.done => /\ w_walk.fwd = AllRecords(w_file)
                   /\ w_walk.bwd = Reverse(AllRecords(w_file))

\* C17: reversing direction returns the record just returned once more:
\* next() returning a record followed by next_back() returns the same
\* record, and next_back() followed by next() likewise.
C17_PivotRepeatsRecord ==
    \A j \in 1..(Len(w_calls) - 1) :
        (w_calls[j].res >= 1 /\ w_calls[j + 1].op # w_calls[j].op)
            => w_calls[j + 1].res = w_calls[j].res

\* C18: an entry split into fragments is read back whole: on a file that
\* holds the records of one entry, read_serializable and
\* read_serializable_backwards both return that entry.
C18_FragmentsReadBackWhole ==
    (w_read.done /\ NumEntries(w_file) = 1 /\ w_file[1].kind # "Zero")
        => /\ w_read.fwd.res = "ok" /\ w_read.fwd.ent = 1
           /\ w_read.bwd.res = "ok" /\ w_read.bwd.ent = 1

\* On whole blocks the iterator itself works; what remains of C18 there is
\* the entry of exactly two fragments.
WholeBlocks(file) ==
    /\ file # <<>>
    /\ FileLen(file) % BLOCK_SIZE = 0
    /\ \A i \in 1..Len(file) :
          file[i].off \div BLOCK_SIZE = (RecordEnd(file[i]) - 1) \div BLOCK_SIZE

ReadBackOnWholeBlocks ==
    (w_read.done /\ NumEntries(w_file) = 1 /\ WholeBlocks(w_file))
        => /\ w_read.fwd.res = "ok" /\ w_read.fwd.ent = 1
           /\ w_read.bwd.res = "ok" /\ w_read.bwd.ent = 1

WalkOnWholeBlocks ==
    (w_walk.done /\ WholeBlocks(w_file))
        => /\ w_walk.fwd = AllRecords(w_file)
           /\ w_walk.bwd = Reverse(AllRecords(w_file))

BackwardWalkAgrees == w_walk.done => w_walk.bwd = next_back(w_file)

(***************************************************************************)
(* Properties of split_bytes_into_records                                  *)
(***************************************************************************)
RECURSIVE ConcatPayloads(_, _)
ConcatPayloads(records, i) ==
    IF i > Len(records) THEN <<>>
    ELSE records[i].payload \o ConcatPayloads(records, i + 1)

\* C19: the payloads of the records, concatenated in order, are the byte
\* vector; no payload is longer than the chunk size; the record types are a
\* single Zero for the empty vector, a single Full for a vector of one
\* chunk, and otherwise First, then only Middle, then Last.
C19_SplitPartitionsBytes ==
    s_done =>
        LET n == Len(s_records) IN
        /\ ConcatPayloads(s_records, 1) = s_bytes
        /\ \A i \in 1..n : Len(s_records[i].payload) <= s_size
        /\ IF s_bytes = <<>> THEN n = 1 /\ s_records[1].record_type = "Zero"
           ELSE IF Len(s_bytes) <= s_size THEN n = 1 /\ s_records[1].record_type = "Full"
           ELSE /\ n >= 2
                /\ s_records[1].record_type = "First"
                /\ s_records[n].record_type = "Last"
                /\ \A i \in 2..(n - 1) : s_records[i].record_type = "Middle"

C19_Witness ==
    /\ s_done
    /\ Len(s_records) >= 3
    /\ Len(s_records[Len(s_records)].payload) < s_size
    /\ \E i, j \in 1..Len(s_bytes) : s_bytes[i] # s_bytes[j]

(***************************************************************************)
(* Properties of Record::read                                              *)
(***************************************************************************)
\* C20: a record of which one payload byte was changed after it was written
\* is not read back: Record::read returns an error.
C20_ChangedPayloadIsRejected ==
    (b_pc = "read" /\ b_changed > HEADER_SIZE) => ~b_result.ok

\* What Record::read does instead: with a record type in the first byte and
\* size bytes after the header it returns a record, whatever the crc.
ReadIgnoresCrc ==
    b_pc = "read" =>
        (b_result.ok <=> /\ Len(b_bytes) >= HEADER_SIZE
                         /\ b_bytes[1] \in 1..5
                         /\ Len(b_bytes) >= HEADER_SIZE + b_bytes[6] * 256 + b_bytes[7])

\* C21: a record whose size is the length of its payload, written with
\* Record::write and read with Record::read, comes back equal in record
\* type, crc, size and payload, and the read takes exactly 7 + size bytes
\* from the buffer.
C21_ReadReturnsWrittenRecord ==
    (b_pc = "read" /\ b_changed = 0)
        => /\ b_result.ok
           /\ b_result.record = b_record
           /\ b_result.consumed = HEADER_SIZE + b_record.size

C21_Witness ==
    /\ b_pc = "read"
    /\ b_changed = 0
    /\ b_result.ok
    /\ b_record.crc # 0
    /\ b_record.size = MaxPayload
    /\ Len(b_bytes) > HEADER_SIZE + b_record.size

(***************************************************************************)
(* A log that ends in an incomplete entry                                  *)
(***************************************************************************)
TornTail(file) == file # <<>> /\ file[Len(file)].type = "Torn"
HasTorn(file) == \E i \in DOMAIN file : file[i].type = "Torn"

\* C22: when the log ends with the first records of an entry whose last
\* record is missing, UndoLog::new still returns an engine, and once it has
\* returned every transaction with an Insert or Change among the complete
\* entries is finished on disk and the writes of the transaction that was
\* cut short are undone in the store.
C22_TornTailIsRecovered ==
    /\ TornTail(u_file) => u_pc # "panicked"
    /\ (u_fresh /\ HasTorn(u_file)) =>
          /\ \A t \in TidsOnDisk(u_file) :
                WroteOnDisk(u_file, t)
                   => (OnDisk(u_file, "Commit", t) \/ OnDisk(u_file, "Abort", t))
          /\ (u_ptid # 0 /\ ~OnDisk(u_file, "Commit", u_ptid))
                => \A k \in Keys : u_pre[k] # Untouched => u_store[k] = u_pre[k]

(***************************************************************************)
(* start() and write() of the undo engine                                  *)
(***************************************************************************)
\* C23: the start() calls made on one engine stage Start entries with
\* distinct, strictly increasing tids, whether or not a commit happened
\* between two calls.
C23_StartTidsIncrease ==
    \A i, j \in DOMAIN u_starts : i < j => u_starts[i] < u_starts[j]

\* C24: a write made while no transaction is active (none was started, or
\* the one started was committed or aborted) changes nothing: mem_log and
\* the store stay as they are.
C24_WriteOutsideTransactionIsNoOp ==
    [][ (~u_started /\ \E k \in Keys, v \in Values : U_Write(k, v))
           => UNCHANGED << u_mem, u_store >> ]_vars

C26_ChangesPrecedeCommit ==
    \A i, j \in DOMAIN r_file :
        (r_file[i].type = "Commit" /\ r_file[j].type = "Change"
            /\ r_file[j].tid = r_file[i].tid) => j < i

(***************************************************************************)
(* flush() of the undo engine                                              *)
(***************************************************************************)
WrittenSinceOpen == SubSeq(u_file, u_base + 1, Len(u_file))

\* C27: what an engine has appended to the file, followed by what is still
\* in mem_log, is what was staged on it, in staging order and each entry
\* once: flush() loses, reorders and repeats nothing.
C27_DiskIsStagedInOrder ==
    u_pc # "closed" => u_staged = WrittenSinceOpen \o u_mem

\* The same while no append to the file has failed.
StagedOnceWithoutAppendError ==
    (u_pc # "closed" /\ ~u_ioerr) => u_staged = WrittenSinceOpen \o u_mem

\* C28: whenever commit calls store.flush(), mem_log is empty and the Insert
\* or Change entry of every write made on this engine is in the file: the
\* store's contents become durable only after the records that undo them.
C28_LogBeforeStoreFlush ==
    [][ (u_flushed' # u_flushed
           \/ (u_pc = "commit1" /\ (u_pc' = "commit2" \/ u_failed' # 0)))
          => /\ u_mem = <<>>
             /\ \A i \in DOMAIN u_staged :
                   IsWrite(u_staged[i])
                      => \E j \in DOMAIN WrittenSinceOpen :
                            WrittenSinceOpen[j] = u_staged[i] ]_vars

C28_Witness ==
    /\ u_pc = "commit2"
    /\ u_gflush
    /\ \E i, j \in DOMAIN WrittenSinceOpen :
          /\ i < j
          /\ WrittenSinceOpen[i].type = "Insert"
          /\ WrittenSinceOpen[j].type = "Change"
    /\ \E k \in Keys : u_flushed[k] # NoVal

(***************************************************************************)
(* store.flush() in the recovery of the undo engine                        *)
(***************************************************************************)
\* C29: recovery calls store.flush() after its store updates and before it
\* appends any Abort: while the Aborts of recover() are being appended, and
\* when UndoLog::new returns after a recovery, what recovery undid in the
\* store is durable.
C29_StoreFlushedBeforeAborts ==
    u_pc = "recover" => u_flushed = u_store

(***************************************************************************)
(* Record types in an order no split produces                              *)
(***************************************************************************)
KindAt(i) == RecordPool[g_stream[i]].kind

\* The records break the order Zero | Full | First Middle* Last, read
\* forward: a Middle or Last comes first, or a Zero, Full or First follows a
\* First and Middle records.
BreaksForwardOrder ==
    \/ KindAt(1) \in {"Middle", "Last"}
    \/ /\ KindAt(1) = "First"
       /\ \E q \in 2..Len(g_stream) :
             /\ KindAt(q) \in {"Zero", "Full", "First"}
             /\ \A m \in 2..(q - 1) : KindAt(m) = "Middle"

\* The same for the order read backward, Last Middle* First.
BreaksBackwardOrder ==
    \/ KindAt(1) \in {"Middle", "First"}
    \/ /\ KindAt(1) = "Last"
       /\ \E q \in 2..Len(g_stream) :
             /\ KindAt(q) \in {"Zero", "Full", "Last"}
             /\ \A m \in 2..(q - 1) : KindAt(m) = "Middle"

\* C30: read_serializable returns an error, and no entry, when the record
\* types arrive in an order outside Zero | Full | First Middle* Last, and
\* read_serializable_backwards when they arrive in an order outside
\* Zero | Full | Last Middle* First.
C30_WrongOrderIsAnError ==
    g_done => /\ (BreaksForwardOrder => g_fwd.res = "err")
              /\ (BreaksBackwardOrder => g_bwd.res = "err")

\* What holds of it: a Middle or Last (backward: Middle or First) that comes
\* first, and a second First (backward: Last), are errors.
WrongOrderWithoutWholeRecord ==
    g_done =>
       /\ (BreaksForwardOrder /\ \A i \in DOMAIN g_stream : KindAt(i) # "Full")
             => g_fwd.res = "err"
       /\ (BreaksBackwardOrder /\ \A i \in DOMAIN g_stream : KindAt(i) # "Full")
             => g_bwd.res = "err"

(***************************************************************************)
(* Blocks the iterator cannot read                                         *)
(***************************************************************************)
\* The position of the block the next call of next() (forward) or
\* next_back() loads: the one given to load_block when no block is loaded
\* yet, the block after when the index is past the loaded block's end and
\* the block before when it is below 0; -1 when the call loads no block.
BlockToLoad(it, forward) ==
    LET it1 == get_pos(it, IF forward THEN 0 ELSE it.file_len - BLOCK_SIZE) IN
    IF ~it1.has_index THEN it1.pos
    ELSE IF it1.block_index < 0 THEN it1.pos - BLOCK_SIZE
    ELSE IF it1.block_index >= Len(it1.block) THEN it1.pos + BLOCK_SIZE
    ELSE -1

LoadsABlock(it, forward) ==
    LET it1 == get_pos(it, IF forward THEN 0 ELSE it.file_len - BLOCK_SIZE) IN
    ~it1.has_index \/ it1.block_index < 0 \/ it1.block_index >= Len(it1.block)

\* The block to load lies beyond the file, or no record can be parsed at
\* its start.
Unreadable(it, lay, forward) ==
    /\ LoadsABlock(it, forward)
    /\ LET position == BlockToLoad(it, forward) IN
          \/ position < 0
          \/ position + BLOCK_SIZE > it.file_len
          \/ fetch_block(lay, position) = <<>>

LastCall == w_calls'[Len(w_calls')]

\* C31: next() and next_back() return None, without panicking, when the
\* block to load lies beyond the file or contains no parseable record.
C31_UnreadableBlockYieldsNone ==
    [][ /\ (W_Next /\ Unreadable(w_it, w_file, TRUE)) => LastCall.res = 0
        /\ (W_NextBack /\ Unreadable(w_it, w_file, FALSE)) => LastCall.res = 0 ]_vars

\* What holds of it: a block beyond the file yields None.
BlockBeyondFileYieldsNone ==
    [][ /\ (W_Next /\ LoadsABlock(w_it, TRUE)
              /\ check_forward_bounds(BlockToLoad(w_it, TRUE), w_it.file_len))
           => LastCall.res = 0
        /\ (W_NextBack /\ LoadsABlock(w_it, FALSE)
              /\ check_forward_bounds(BlockToLoad(w_it, FALSE), w_it.file_len))
           => LastCall.res = 0 ]_vars

(***************************************************************************)
(* The iterator's block position                                           *)
(***************************************************************************)
Aligned(it) ==
    (it.open /\ it.has_pos) =>
        /\ it.pos % BLOCK_SIZE = 0
        /\ it.pos >= 0
        /\ it.pos <= it.file_len

\* A step that moves the position from one block to another moves it by one
\* block.
MovesOneBlock ==
    (w_it.open /\ w_it.has_pos /\ w_it'.open /\ w_it'.has_pos /\ w_it'.pos # w_it.pos)
        => (w_it'.pos = w_it.pos + BLOCK_SIZE \/ w_it'.pos = w_it.pos - BLOCK_SIZE)

\* C32: the iterator's block position is always a multiple of BLOCK_SIZE
\* inside the file; a backward iterator starts at
\* floor((file_len - 1) / BLOCK_SIZE) * BLOCK_SIZE, also when file_len is no
\* multiple of BLOCK_SIZE; every block change moves the position by exactly
\* +BLOCK_SIZE or -BLOCK_SIZE.
C32_PositionIsBlockAligned ==
    [][ /\ Aligned(w_it')
        /\ (W_NextBack /\ ~w_it.has_pos /\ w_it.file_len > 0)
              => /\ w_it'.has_pos
                 /\ w_it'.pos = ((w_it.file_len - 1) \div BLOCK_SIZE) * BLOCK_SIZE
        /\ MovesOneBlock ]_vars

\* What holds of it: every block change moves the position by one block,
\* and the position is a multiple of BLOCK_SIZE inside the file when the
\* file is a whole number of blocks long.
BlockChangeMovesOneBlock ==
    [][ /\ MovesOneBlock
        /\ (w_it'.open /\ w_it'.file_len > 0 /\ w_it'.file_len % BLOCK_SIZE = 0)
              => Aligned(w_it') ]_vars

(***************************************************************************)
(* What a redo checkpoint hands to the store                               *)
(***************************************************************************)
\* The writes of key k made through write() by transactions marked
\* committed, as positions in transaction_changes (write order).
CommittedWrites(k) ==
    { i \in DOMAIN r_changes : r_changes[i][2] = k /\ r_changes[i][1] \in r_committed }

\* The store.flush_change calls made with key k by the checkpoint() that
\* made the step.
CallsFor(k) == { i \in DOMAIN r_cp'.calls : r_cp'.calls[i][1] = k }

\* C33: redo checkpoint() calls store.flush_change(k, v) exactly once for
\* each key k written by at least one transaction marked committed, with v
\* the value of the latest such write in write order, and never passes a
\* value written by a transaction that is not committed.  (A checkpoint that
\* a failed flush_change ends makes its calls up to the failed one; they are
\* at most one per key and carry the same values.)
C33_CheckpointFlushesCommittedWrites ==
    [][ (\E ok \in BOOLEAN : R_CheckpointFlushChanges(ok)) =>
          /\ \A k \in Keys :
                /\ Cardinality(CallsFor(k)) <= 1
                /\ CommittedWrites(k) = {} => CallsFor(k) = {}
                /\ \A i \in CallsFor(k) :
                      /\ CommittedWrites(k) # {}
                      /\ r_cp'.calls[i][2] = r_changes[SetMax(CommittedWrites(k))][3]
          /\ r_pc' = "cp2" =>
                \A k \in Keys : CommittedWrites(k) # {} => Cardinality(CallsFor(k)) = 1
      ]_vars

\* checkpoint() has returned Ok after one flush_change call, for a key that
\* a committed transaction wrote and then a transaction that is not
\* committed wrote with another value.
C33_Witness ==
    /\ r_cp.st = "ok"
    /\ Len(r_cp.calls) = 1
    /\ \E i, j \in DOMAIN r_changes :
          /\ i < j
          /\ r_changes[i][2] = r_cp.calls[1][1]
          /\ r_changes[j][2] = r_cp.calls[1][1]
          /\ r_changes[i][1] \in r_committed
          /\ r_changes[j][1] \notin r_committed
          /\ r_changes[i][3] = r_cp.calls[1][2]
          /\ r_changes[j][3] # r_changes[i][3]

(***************************************************************************)
(* A checkpoint that was open at the crash                                 *)
(***************************************************************************)
\* The Begins of the file with no End after them.
OpenBegins(file) ==
    { i \in DOMAIN file :
         /\ file[i].type = "Begin"
         /\ \A j \in DOMAIN file : j > i => file[j].type # "End" }

\* C34: a Begin with no End after it in the log does not shorten the redo
\* recovery: the backward pass reads on past it, and the entry it reads last
\* is the one the most recent End and the Begin before that End give (the
\* first entry of the file when there is no such pair).
C34_OpenBeginDoesNotBoundThePass ==
    (r_pc = "recover" /\ OpenBegins(r_file) # {}) =>
        /\ \A i \in OpenBegins(r_file) : r_halt < i \/ i = 1
        /\ r_halt = IF HasCheckpoint(r_file) THEN WindowStart(r_file) ELSE 1

\* A recovery over a file with a finished checkpoint, entries after its End
\* and then a Begin without End: the pass has gone past that Begin and past
\* the End, and has stopped after the first entry of the file.
C34_Witness ==
    /\ r_pc = "recover"
    /\ HasCheckpoint(r_file)
    /\ \E i \in OpenBegins(r_file) : LastEndPos(r_file) < i /\ r_halt < LastEndPos(r_file)
    /\ r_halt > 1

\* The same for the undo engine with checkpoints (SpecUndoCheckpoint).
UndoOpenBeginDoesNotBoundTheWalk ==
    (uc_pc = "recover" /\ OpenBegins(uc_file) # {}) =>
        /\ \A i \in OpenBegins(uc_file) : uc_halt < i \/ i = 1
        /\ uc_halt = IF HasCheckpoint(uc_file) THEN WindowStart(uc_file) ELSE 1

(***************************************************************************)
(* Begin and End on the undo log                                           *)
(***************************************************************************)
\* The Begin and End entries of a sequence of entries, in order.
CheckpointEntries(file) ==
    LET IsCp(e) == e.type \in {"Begin", "End"} IN SelectSeq(file, IsCp)

\* Begin and End strictly alternate, starting with Begin.
Alternate(file) ==
    \A i \in DOMAIN CheckpointEntries(file) :
        CheckpointEntries(file)[i].type = IF i % 2 = 1 THEN "Begin" ELSE "End"

\* checkpoint() called while a checkpoint is in progress stages nothing and
\* changes no state.
CheckpointInProgressIsNoOp ==
    (UC_Checkpoint /\ uc_cp.some) => UNCHANGED uc_vars

\* What the engine has appended to the file since it was opened.
AppendedSinceOpen == SubSeq(uc_file, uc_base + 1, Len(uc_file))

\* C35 as stated: undo checkpoint() called while a checkpoint is in progress
\* stages nothing and changes no state, so on the undo log Begin and End
\* records strictly alternate, starting with Begin.
C35_BeginAndEndAlternate ==
    [][ CheckpointInProgressIsNoOp /\ Alternate(uc_file') ]_vars

\* C35, amended: undo checkpoint() called while a checkpoint is in progress
\* stages nothing and changes no state, so among the records one engine
\* appends between its opening and its end, Begin and End strictly alternate,
\* starting with Begin.  (The Begin of a checkpoint that was in progress when
\* the process ended stays without End, and the engine opened next starts
\* with no checkpoint in progress.)
C35_BeginAndEndAlternateSinceOpen ==
    [][ /\ CheckpointInProgressIsNoOp
        /\ uc_pc' # "closed" => Alternate(AppendedSinceOpen') ]_vars

\* An engine that has finished one checkpoint and has a second one in
\* progress: Begin, End and Begin appended since it was opened.
C35_Witness ==
    /\ uc_pc = "idle"
    /\ uc_cp.some
    /\ Len(CheckpointEntries(AppendedSinceOpen)) = 3

(***************************************************************************)
(* The second pass of the redo recovery                                    *)
(***************************************************************************)
\* Tids with a Commit (an Abort) on disk.
CommittedOnDisk(file) == { t \in 1..MaxTid : OnDisk(file, "Commit", t) }
AbortedOnDisk(file) == { t \in 1..MaxTid : OnDisk(file, "Abort", t) }

\* The Changes of committed tids at or after position halt (none on an
\* empty file, where halt is 0).
ChangesToRedo(file, halt) ==
    { p \in DOMAIN file :
         /\ halt >= 1
         /\ p >= halt
         /\ file[p].type = "Change"
         /\ file[p].tid \in CommittedOnDisk(file) }

\* The store after the store.update calls for the Changes at the positions
\* calls[i..], made in that order.
RECURSIVE Updated(_, _, _, _)
Updated(store, file, calls, i) ==
    IF i > Len(calls) THEN store
    ELSE Updated([store EXCEPT ![file[calls[i]].key] = file[calls[i]].val],
                 file, calls, i + 1)

\* C36: the forward pass of the redo recovery calls store.update(k, v) for
\* every Change{tid, k, v} with tid committed that lies at or after the
\* entry where the backward pass halted (the first entry of the log when the
\* backward pass ran to the beginning), exactly once each and in log order,
\* and for no Change of an uncommitted or aborted tid.  The tids recovery
\* found uncommitted are those it stages an Abort for.
C36_ForwardPassRedoesCommittedChanges ==
    [][ (r_pc = "closed" /\ r_pc' = "recover") =>
          /\ \A i, j \in DOMAIN r_calls' : i < j => r_calls'[i] < r_calls'[j]
          /\ { r_calls'[i] : i \in DOMAIN r_calls' } = ChangesToRedo(r_file, r_halt')
          /\ r_store' = Updated(r_store, r_file, r_calls', 1)
          /\ \A i \in DOMAIN r_calls' :
                /\ r_file[r_calls'[i]].tid \notin AbortedOnDisk(r_file)
                /\ \A m \in DOMAIN r_mem' : r_mem'[m].tid # r_file[r_calls'[i]].tid
      ]_vars

\* What holds of it: the calls are made for the Changes at or after the halt
\* whose tid has a Commit on disk, once each and in log order.
ForwardPassRedoesFromHalt ==
    [][ (r_pc = "closed" /\ r_pc' = "recover") =>
          /\ \A i, j \in DOMAIN r_calls' : i < j => r_calls'[i] < r_calls'[j]
          /\ { r_calls'[i] : i \in DOMAIN r_calls' } = ChangesToRedo(r_file, r_halt')
          /\ r_store' = Updated(r_store, r_file, r_calls', 1)
      ]_vars

(***************************************************************************)
(* Opening an engine again                                                 *)
(***************************************************************************)
\* RedoLog::new runs on what an engine left that was only opened (r_again
\* tells how that engine ended) and gets past its passes.
OpensAgain == r_pc = "closed" /\ r_again # "no" /\ (\E ok \in BOOLEAN : R_Open(ok))

UndoSecondOpenChangesNothing ==
    (u_pc = "idle" /\ u_fresh) =>
        LET lay == Layout(u_file)
            stream == next_back(lay)
            first == read_serializable_backwards(lay, stream, 1)
            w == recover_walk(u_file, ReadAllBackwards(lay, stream, 1).ents, 1, {}, {},
                              u_flushed)
        IN (first.res = "ok" /\ ~IsTxnEnd(u_file[first.ent]))
              => (w.unfinished = {} /\ w.store = u_flushed)


(***************************************************************************)
(* Transaction entries on disk, per tid                                    *)
(***************************************************************************)
CountOnDisk(file, type, t) ==
    Cardinality({ i \in DOMAIN file : file[i].type = type /\ file[i].tid = t })

OneOfEach(file) ==
    \A t \in 1..MaxTid :
        /\ CountOnDisk(file, "Start", t) <= 1
        /\ CountOnDisk(file, "Commit", t) <= 1
        /\ CountOnDisk(file, "Abort", t) <= 1

NeverCommitAndAbort(file) ==
    \A t \in 1..MaxTid : ~(OnDisk(file, "Commit", t) /\ OnDisk(file, "Abort", t))

\* C38: after any sequence of operations, failed commits, crashes and
\* reopenings, the log on disk holds for each tid at most one Start, at most
\* one Commit and at most one Abort, and never both a Commit and an Abort.
C38_OneStartCommitAbortPerTid == OneOfEach(r_file) /\ NeverCommitAndAbort(r_file)

\* What holds of it: recovery appends at most one Abort per tid, and the undo
\* engine with transaction ids never has a Commit and an Abort of one tid.
RedoOneAbortPerTid == \A t \in 1..MaxTid : CountOnDisk(r_file, "Abort", t) <= 1
UndoCheckpointNeverCommitAndAbort == NeverCommitAndAbort(uc_file)


(***************************************************************************)
(* Calls after the first None                                              *)
(***************************************************************************)
\* The call made in this step repeats the call made last, which returned
\* None.
RepeatsAfterNone ==
    /\ w_calls # <<>>
    /\ Len(w_calls') = Len(w_calls) + 1
    /\ w_calls[Len(w_calls)].res = 0
    /\ LastCall.op = w_calls[Len(w_calls)].op

\* C39: the iterator is fused: once next() (next_back()) has returned None,
\* every later call in the same direction returns None, whatever the number
\* of blocks of the file.
C39_IteratorIsFused == [][ RepeatsAfterNone => LastCall.res = 0 ]_vars

\* What holds of it: a call repeated after None never yields a record when
\* the file has at most one block.
FusedWithinOneBlock ==
    [][ (RepeatsAfterNone /\ FileLen(w_file) <= BLOCK_SIZE) => LastCall.res = 0 ]_vars


(***************************************************************************)
(* Undo recovery and the keys whose last writer committed                  *)
(***************************************************************************)
\* The position of the last Insert or Change of key k in the file (0: none).
LastWrite(file, k) ==
    LET ws == { i \in DOMAIN file : IsWrite(file[i]) /\ file[i].key = k } IN
    IF ws = {} THEN 0 ELSE SetMax(ws)

\* The last writer of k is a committed transaction: its Commit follows the
\* write.
LastWriterCommitted(file, k) ==
    /\ LastWrite(file, k) # 0
    /\ \E j \in DOMAIN file : /\ j > LastWrite(file, k)
                               /\ file[j].type = "Commit"
                               /\ file[j].tid = file[LastWrite(file, k)].tid

\* An earlier write of k by a transaction that has neither Commit nor Abort
\* in the file.
UnfinishedWroteEarlier(file, k) ==
    \E i \in DOMAIN file :
        /\ IsWrite(file[i]) /\ file[i].key = k /\ i < LastWrite(file, k)
        /\ ~OnDisk(file, "Commit", file[i].tid)
        /\ ~OnDisk(file, "Abort", file[i].tid)

UndoOpens == u_pc = "closed" /\ u_pc' # "closed"
UndoCheckpointOpens == uc_pc = "closed" /\ (\E ok \in BOOLEAN : UC_Open(ok))

KeepsCommittedValueUnlessWrittenEarlier ==
    [][ UndoCheckpointOpens =>
           \A k \in Keys : (LastWriterCommitted(uc_file, k) /\ ~UnfinishedWroteEarlier(uc_file, k))
                               => uc_store'[k] = uc_store[k] ]_vars

UndoRecoveryKeepsCommittedValue ==
    [][ UndoOpens =>
           \A k \in Keys : LastWriterCommitted(u_file, k) => u_store'[k] = u_store[k] ]_vars
====
